---- MODULE Spec2Model ----
(***************************************************************************)
(* Quizly: the quiz-generation pipeline of quizzes/functions.py            *)
(* (download -> transcribe -> prompt -> AI call -> clean -> parse ->       *)
(* normalize) and its pure text helpers.                                   *)
(*                                                                         *)
(* Python str values are modelled as sequences of one-character strings,   *)
(* so that strip, startswith, endswith, slicing and substring search are   *)
(* computed the way the code computes them.  Python dicts are functions    *)
(* whose domain is the set of keys present.                                *)
(***************************************************************************)
EXTENDS Naturals, Sequences, FiniteSets, TLC

(***************************************************************************)
(* Bounds of the model.                                                    *)
(***************************************************************************)
MaxRequests == 2
MaxPayloadLen == 4
MaxTranscriptLen == 3
MaxQuestions == 1
MaxCalls == 2

(***************************************************************************)
(* Python str helpers.                                                     *)
(***************************************************************************)
\* The characters str.strip() removes (ASCII whitespace).
Whitespace == {" ", "\n", "\t", "\r"}

\* s[n:] for 0 <= n
DropFirst(s, n) == IF n >= Len(s) THEN << >> ELSE SubSeq(s, n + 1, Len(s))

\* s[:-n] for 0 < n <= len(s)
DropLast(s, n) == SubSeq(s, 1, Len(s) - n)

\* s.startswith(p)
StartsWith(s, p) == Len(p) <= Len(s) /\ SubSeq(s, 1, Len(p)) = p

\* s.endswith(p)
EndsWith(s, p) ==
  Len(p) <= Len(s) /\ SubSeq(s, Len(s) - Len(p) + 1, Len(s)) = p

\* sub in s
Contains(s, sub) ==
  \E i \in 1..(Len(s) - Len(sub) + 1) : SubSeq(s, i, i + Len(sub) - 1) = sub

\* s.strip(): s without its leading and trailing whitespace.
Strip(s) ==
  LET keep == { i \in 1..Len(s) : s[i] \notin Whitespace }
  IN  IF keep = {} THEN << >>
      ELSE LET lo == CHOOSE i \in keep : \A j \in keep : i <= j
               hi == CHOOSE i \in keep : \A j \in keep : j <= i
           IN  SubSeq(s, lo, hi)

\* All sequences over alphabet A of length at most n.
SeqsUpTo(A, n) == UNION { [1..k -> A] : k \in 0..n }

(***************************************************************************)
(* functions.py: the prompt builder.                                       *)
(***************************************************************************)
\* "Based on the following transcript, generate a quiz in valid JSON
\* format.\n\nThe quiz must follow this exact structure:"
get_prompt_header ==
  <<
    "B", "a", "s", "e", "d", " ", "o", "n", " ", "t", "h", "e", " ", "f",
    "o", "l", "l", "o", "w", "i", "n", "g", " ", "t", "r", "a", "n", "s",
    "c", "r", "i", "p", "t", ",", " ", "g", "e", "n", "e", "r", "a", "t",
    "e", " ", "a", " ", "q", "u", "i", "z", " ", "i", "n", " ", "v", "a",
    "l", "i", "d", " ", "J", "S", "O", "N", " ", "f", "o", "r", "m", "a",
    "t", ".", "\n", "\n", "T", "h", "e", " ", "q", "u", "i", "z", " ", "m",
    "u", "s", "t", " ", "f", "o", "l", "l", "o", "w", " ", "t", "h", "i",
    "s", " ", "e", "x", "a", "c", "t", " ", "s", "t", "r", "u", "c", "t",
    "u", "r", "e", ":"
  >>

\* json.dumps(get_quiz_structure_dict(), indent=2)
\*   + "\n    ...\n    (exactly 10 questions)"
get_prompt_structure ==
  <<
    "{", "\n", " ", " ", "\"", "t", "i", "t", "l", "e", "\"", ":", " ", "\"",
    "C", "r", "e", "a", "t", "e", " ", "a", " ", "c", "o", "n", "c", "i",
    "s", "e", " ", "q", "u", "i", "z", " ", "t", "i", "t", "l", "e", " ",
    "b", "a", "s", "e", "d", " ", "o", "n", " ", "t", "h", "e", " ", "t",
    "o", "p", "i", "c", " ", "o", "f", " ", "t", "h", "e", " ", "t", "r",
    "a", "n", "s", "c", "r", "i", "p", "t", ".", "\"", ",", "\n", " ", " ",
    "\"", "d", "e", "s", "c", "r", "i", "p", "t", "i", "o", "n", "\"", ":",
    " ", "\"", "S", "u", "m", "m", "a", "r", "i", "z", "e", " ", "t", "h",
    "e", " ", "t", "r", "a", "n", "s", "c", "r", "i", "p", "t", " ", "i",
    "n", " ", "n", "o", " ", "m", "o", "r", "e", " ", "t", "h", "a", "n",
    " ", "1", "5", "0", " ", "c", "h", "a", "r", "a", "c", "t", "e", "r",
    "s", ".", "\"", ",", "\n", " ", " ", "\"", "q", "u", "e", "s", "t", "i",
    "o", "n", "s", "\"", ":", " ", "[", "\n", " ", " ", " ", " ", "{", "\n",
    " ", " ", " ", " ", " ", " ", "\"", "q", "u", "e", "s", "t", "i", "o",
    "n", "_", "t", "i", "t", "l", "e", "\"", ":", " ", "\"", "T", "h", "e",
    " ", "q", "u", "e", "s", "t", "i", "o", "n", " ", "g", "o", "e", "s",
    " ", "h", "e", "r", "e", ".", "\"", ",", "\n", " ", " ", " ", " ", " ",
    " ", "\"", "q", "u", "e", "s", "t", "i", "o", "n", "_", "o", "p", "t",
    "i", "o", "n", "s", "\"", ":", " ", "[", "\n", " ", " ", " ", " ", " ",
    " ", " ", " ", "\"", "O", "p", "t", "i", "o", "n", " ", "A", "\"", ",",
    "\n", " ", " ", " ", " ", " ", " ", " ", " ", "\"", "O", "p", "t", "i",
    "o", "n", " ", "B", "\"", ",", "\n", " ", " ", " ", " ", " ", " ", " ",
    " ", "\"", "O", "p", "t", "i", "o", "n", " ", "C", "\"", ",", "\n", " ",
    " ", " ", " ", " ", " ", " ", " ", "\"", "O", "p", "t", "i", "o", "n",
    " ", "D", "\"", "\n", " ", " ", " ", " ", " ", " ", "]", ",", "\n", " ",
    " ", " ", " ", " ", " ", "\"", "a", "n", "s", "w", "e", "r", "\"", ":",
    " ", "\"", "T", "h", "e", " ", "c", "o", "r", "r", "e", "c", "t", " ",
    "a", "n", "s", "w", "e", "r", " ", "f", "r", "o", "m", " ", "t", "h",
    "e", " ", "a", "b", "o", "v", "e", " ", "o", "p", "t", "i", "o", "n",
    "s", "\"", "\n", " ", " ", " ", " ", "}", "\n", " ", " ", "]", "\n", "}",
    "\n", " ", " ", " ", " ", ".", ".", ".", "\n", " ", " ", " ", " ", "(",
    "e", "x", "a", "c", "t", "l", "y", " ", "1", "0", " ", "q", "u", "e",
    "s", "t", "i", "o", "n", "s", ")"
  >>

\* "\nRequirements:\n- Each question must have exactly 4 distinct answer
\* options.\n- Only one correct answer ... any text outside the\n  JSON."
get_prompt_requirements ==
  <<
    "\n", "R", "e", "q", "u", "i", "r", "e", "m", "e", "n", "t", "s", ":",
    "\n", "-", " ", "E", "a", "c", "h", " ", "q", "u", "e", "s", "t", "i",
    "o", "n", " ", "m", "u", "s", "t", " ", "h", "a", "v", "e", " ", "e",
    "x", "a", "c", "t", "l", "y", " ", "4", " ", "d", "i", "s", "t", "i",
    "n", "c", "t", " ", "a", "n", "s", "w", "e", "r", " ", "o", "p", "t",
    "i", "o", "n", "s", ".", "\n", "-", " ", "O", "n", "l", "y", " ", "o",
    "n", "e", " ", "c", "o", "r", "r", "e", "c", "t", " ", "a", "n", "s",
    "w", "e", "r", " ", "i", "s", " ", "a", "l", "l", "o", "w", "e", "d",
    " ", "p", "e", "r", " ", "q", "u", "e", "s", "t", "i", "o", "n", ",",
    " ", "a", "n", "d", " ", "i", "t", " ", "m", "u", "s", "t", " ", "b",
    "e", "\n", " ", " ", "p", "r", "e", "s", "e", "n", "t", " ", "i", "n",
    " ", "'", "q", "u", "e", "s", "t", "i", "o", "n", "_", "o", "p", "t",
    "i", "o", "n", "s", "'", ".", "\n", "-", " ", "T", "h", "e", " ", "o",
    "u", "t", "p", "u", "t", " ", "m", "u", "s", "t", " ", "b", "e", " ",
    "v", "a", "l", "i", "d", " ", "J", "S", "O", "N", " ", "a", "n", "d",
    " ", "p", "a", "r", "s", "a", "b", "l", "e", " ", "a", "s", "-", "i",
    "s", "\n", " ", " ", "(", "e", ".", "g", ".", ",", " ", "u", "s", "i",
    "n", "g", " ", "P", "y", "t", "h", "o", "n", "'", "s", " ", "j", "s",
    "o", "n", ".", "l", "o", "a", "d", "s", ")", ".", "\n", "-", " ", "D",
    "o", " ", "n", "o", "t", " ", "i", "n", "c", "l", "u", "d", "e", " ",
    "e", "x", "p", "l", "a", "n", "a", "t", "i", "o", "n", "s", ",", " ",
    "c", "o", "m", "m", "e", "n", "t", "s", ",", " ", "o", "r", " ", "a",
    "n", "y", " ", "t", "e", "x", "t", " ", "o", "u", "t", "s", "i", "d",
    "e", " ", "t", "h", "e", "\n", " ", " ", "J", "S", "O", "N", "."
  >>

\* "\n\nTranscript:\n" of the f-string of build_gemini_prompt
TranscriptLabel ==
  <<"\n", "\n", "T", "r", "a", "n", "s", "c", "r", "i", "p", "t", ":", "\n">>

\* A plausible slip: the transcript is interpolated before the requirements.
build_gemini_prompt_TranscriptFirst(transcript) ==
  get_prompt_header \o <<"\n", "\n">> \o get_prompt_structure
    \o TranscriptLabel \o transcript \o <<"\n">> \o get_prompt_requirements

\* f"{header}\n\n{structure}\n{requirements}\n\nTranscript:\n{transcript}"
build_gemini_prompt(transcript) ==
  get_prompt_header \o <<"\n", "\n">> \o get_prompt_structure
    \o <<"\n">> \o get_prompt_requirements \o TranscriptLabel \o transcript

(***************************************************************************)
(* functions.py: clean_json_response.                                      *)
(***************************************************************************)
\* The backquote character (U+0060) is written as the token "BACKTICK": the
\* module's lexer does not accept it inside a string.
Backtick == "BACKTICK"
Fence == <<Backtick, Backtick, Backtick>>
FenceJson == Fence \o <<"j", "s", "o", "n">>

\* A plausible slip: the closing fence is never removed.
clean_json_response_KeepsClosingFence(response_text) ==
  LET text0 == Strip(response_text)
      text1 == IF StartsWith(text0, FenceJson) THEN DropFirst(text0, 7)
               ELSE text0
      text2 == IF StartsWith(text1, Fence) THEN DropFirst(text1, 3)
               ELSE text1
  IN  Strip(text2)

\* A plausible slip: only the ```json fence is recognised at the start.
clean_json_response_OnlyJsonFence(response_text) ==
  LET text0 == Strip(response_text)
      text1 == IF StartsWith(text0, FenceJson) THEN DropFirst(text0, 7)
               ELSE text0
      text3 == IF EndsWith(text1, Fence) THEN DropLast(text1, 3) ELSE text1
  IN  Strip(text3)

clean_json_response(response_text) ==
  LET text0 == Strip(response_text)
      text1 == IF StartsWith(text0, FenceJson) THEN DropFirst(text0, 7)
               ELSE text0
      text2 == IF StartsWith(text1, Fence) THEN DropFirst(text1, 3)
               ELSE text1
      text3 == IF EndsWith(text2, Fence) THEN DropLast(text2, 3) ELSE text2
  IN  Strip(text3)

(***************************************************************************)
(* Python dict helpers: a dict is a function whose domain is its key set.  *)
(***************************************************************************)
\* d without key k (dict.pop(k) leaves this behind)
Pop(d, k) == [x \in (DOMAIN d) \ {k} |-> d[x]]

\* d[k] = v
Put(d, k, v) == [x \in (DOMAIN d) \cup {k} |-> IF x = k THEN v ELSE d[x]]

\* An optional value: << >> is None / unset, <<v>> holds v.
None == << >>
Some(v) == <<v>>

(***************************************************************************)
(* functions.py: normalize_question_keys.                                  *)
(***************************************************************************)
\* A plausible slip: the old key is read but never removed (d[k] for pop).
normalize_question_KeepsOldKeys(question) ==
  LET q1 == IF "question_title" \in DOMAIN question
            THEN Put(question, "question", question["question_title"])
            ELSE question
  IN  IF "question_options" \in DOMAIN q1
      THEN Put(q1, "options", q1["question_options"])
      ELSE q1

\* The body of the for loop, lines 210-213, on one question dict.
normalize_question(question) ==
  LET q1 == IF "question_title" \in DOMAIN question
            THEN Put(Pop(question, "question_title"), "question",
                     question["question_title"])
            ELSE question
  IN  IF "question_options" \in DOMAIN q1
      THEN Put(Pop(q1, "question_options"), "options",
               q1["question_options"])
      ELSE q1

\* Lines 209-214: quiz_data.get('questions', []) is walked; the dict is
\* changed in place and returned, every question of the list being the same
\* object with its keys renamed.
normalize_question_keys(quiz_data) ==
  IF "questions" \in DOMAIN quiz_data
  THEN [quiz_data EXCEPT !["questions"] =
          [i \in 1..Len(@) |-> normalize_question(@[i])]]
  ELSE quiz_data

(***************************************************************************)
(* The world of the pipeline.                                              *)
(***************************************************************************)
Requests == 1..MaxRequests

\* Video URLs a client may post; the first two name the same video.
Urls == {"watch?v=a", "youtu.be/a", "watch?v=b"}

\* The id yt-dlp extracts from a URL (info['id']).
VideoId(url) == IF url = "watch?v=b" THEN "b" ELSE "a"

\* ydl.prepare_filename(info) for outtmpl MEDIA_ROOT/temp_audio/%(id)s.%(ext)s
PrepareFilename(url) ==
  IF VideoId(url) = "a" THEN "temp_audio/a.webm" ELSE "temp_audio/b.webm"

Paths == { PrepareFilename(u) : u \in Urls }

\* files[p] = NoFile: no file at p; files[p] = r: the file request r wrote;
\* files[p] = Leftover: a file an earlier process left behind.
NoFile == 0
Leftover == MaxRequests + 1

\* The paths at which a file may have been left behind.
LeftoverPaths == {"temp_audio/a.webm"}

\* Transcripts the speech-to-text model may return.
Transcripts == { <<"h", "i">>, << >> }

\* JSON texts the AI service may return, and the value json.loads gives for
\* each.  A text stands for the serialisation of its value.
JsonTextA == <<"{", "A", "}">>
JsonTextB == <<"{", "B", "}">>

JsonValueA ==
  [title |-> "T",
   questions |-> << [question_title |-> "Q1",
                     question_options |-> <<"A", "B", "C", "D">>,
                     answer |-> "A"] >>]

JsonValueB ==
  [title |-> "T2", description |-> "D",
   questions |-> << [question |-> "Q1",
                     options |-> <<"A", "B", "C", "D">>,
                     answer |-> "B"] >>]

\* Valid JSON that does not follow the schema of the prompt: a question with
\* two options and an answer that is none of them, and a payload without
\* questions.
JsonTextC == <<"{", "C", "}">>
JsonTextD == <<"{", "D", "}">>

JsonValueC ==
  [title |-> "T3", description |-> "D",
   questions |-> << [question_title |-> "Q1",
                     question_options |-> <<"A", "B">>,
                     answer |-> "Z"] >>]

JsonValueD == [title |-> "T4"]

\* json.loads(text): Some(value), or None for JSONDecodeError.
json_loads(text) ==
  IF text = JsonTextA THEN Some(JsonValueA)
  ELSE IF text = JsonTextB THEN Some(JsonValueB)
  ELSE IF text = JsonTextC THEN Some(JsonValueC)
  ELSE IF text = JsonTextD THEN Some(JsonValueD)
  ELSE None

\* ```tag \n payload \n ```
Fenced(tag, payload) ==
  Fence \o tag \o <<"\n">> \o payload \o <<"\n">> \o Fence

TagJson == <<"j", "s", "o", "n">>
TagNone == << >>
TagPy == <<"p", "y">>
TagUpper == <<"J", "S", "O", "N">>
TagJsonl == <<"j", "s", "o", "n", "l">>

\* Raw texts call_gemini_api may return in the pipeline.
RawResponses ==
  { JsonTextA, Fenced(TagJson, JsonTextA), Fenced(TagNone, JsonTextB),
    Fenced(TagPy, JsonTextA) }

VARIABLES
  GEMINI_API_KEY,  \* settings.GEMINI_API_KEY: "" when unset
  files,           \* the files of MEDIA_ROOT/temp_audio, by path
  req,             \* one call frame per request / top-level call
  pure             \* the call of a pure helper under check (see below)

(***************************************************************************)
(* The web layer around the pipeline: users, JWT cookies, the Quiz and      *)
(* Question tables and the responses of the views.                          *)
(***************************************************************************)
Users == {"alice", "bob"}

\* A JWT as its verified content: type, owner, identifier and whether its
\* lifetime has passed.  Garbage stands for any string that is no JWT.
Token(type, user, jti, expired) ==
  [type |-> type, user |-> user, jti |-> jti, expired |-> expired]

Garbage == Token("garbage", "", 0, FALSE)

\* RefreshToken.for_user(user) at an earlier login: one outstanding refresh
\* token per user, and a refresh token of alice whose lifetime has passed.
RefreshOf(user) ==
  Token("refresh", user, IF user = "alice" THEN 1 ELSE 2, FALSE)
ExpiredRefresh == Token("refresh", "alice", 3, TRUE)
OutstandingJtis == {1, 2, 3}

\* refresh.access_token: the n-th access token derived from a refresh token.
AccessOf(refresh, n) == Token("access", refresh.user, n, FALSE)
ExpiredAccess == Token("access", "alice", 0, TRUE)

\* The Quiz and Question tables.  A table is a function from the primary
\* keys of its rows; the next_ counters are the auto-increment sequences.
EmptyDb ==
  [quizzes |-> [pk \in {} |-> pk],
   questions |-> [pk \in {} |-> pk],
   next_quiz |-> 1,
   next_question |-> 1]

\* The token blacklist, the number of access tokens derived so far and the
\* refresh tokens issued by login.
NoAuth == [blacklist |-> {}, minted |-> 0, issued |-> {}]

\* The frame of a create-quiz request whose pipeline has not started.
IdleView == [pc |-> "idle", user |-> None, url |-> None]

\* No response has been sent yet, or the response is pending.
NoResponse ==
  [view |-> "none", status |-> 0, body |-> None,
   cookies |-> [c \in {} |-> c], presented |-> None]

VARIABLES
  view,            \* create_quiz_view: one frame per request in flight
  db,              \* the Quiz and Question tables
  auth,            \* the token blacklist
  response         \* the response sent last

apiVars == <<view, db, auth, response>>

vars == <<GEMINI_API_KEY, files, req, pure, view, db, auth, response>>

\* No web request was ever served.
ApiAtRest ==
  /\ view = [r \in Requests |-> IdleView]
  /\ db = EmptyDb
  /\ auth = NoAuth
  /\ response = NoResponse

\* The frame of a call that has not started.
IdleFrame ==
  [entry |-> "idle",        \* the function the caller called
   pc |-> "idle",
   url |-> None,            \* create_quiz_from_url: url
   audio_file |-> None,     \* create_quiz_from_url: audio_file (line 271)
   audio_file_path |-> None,\* transcribe_audio: its argument
   pending |-> "none",      \* transcribe_audio: what the try block left
   pending_text |-> None,   \*   "return" with this text, or "raise" with
   pending_exc |-> "none",  \*   this exception
   cleanup_args |-> << >>,  \* the arguments of cleanup_audio_file, in order
   transcript_local |-> None, \* create_quiz_from_url: transcript (line 272)
   transcript |-> None,     \* generate_quiz_with_gemini: its argument
   prompt |-> None,         \* generate_quiz_with_gemini: prompt
   response_text |-> None,  \* generate_quiz_with_gemini: response_text
   generated |-> None,      \* what generate_quiz_with_gemini returned
   quiz_data |-> None,      \* create_quiz_from_url: quiz_data (line 273)
   ret_text |-> None,       \* what the caller received: a transcript,
   ret_data |-> None,       \*   a quiz payload,
   raised |-> "none",       \*   or an exception
   log |-> << >>]           \* calls, returns and raises, in order

Set(r, frame) == req' = [req EXCEPT ![r] = frame]
Log(frame, events) == [frame EXCEPT !.log = @ \o events]

\* No call is in flight.
Quiescent == \A r \in Requests : req[r].pc \in {"idle", "done"}

InitPipeline ==
  /\ GEMINI_API_KEY \in {"", "secret"}
  /\ files \in [Paths -> {NoFile, Leftover}]
  /\ \A p \in Paths \ LeftoverPaths : files[p] = NoFile
  /\ req = [r \in Requests |-> IdleFrame]
  /\ pure = [fn |-> "none"]
  /\ ApiAtRest

(***************************************************************************)
(* Entry points: the caller calls one of the three functions.              *)
(***************************************************************************)
\* A plausible change: the credential is checked before the pipeline starts.
CallCreateQuizFromUrl_FailFast(r, u) ==
  /\ req[r].pc = "idle"
  /\ IF GEMINI_API_KEY = ""
     THEN Set(r, Log([req[r] EXCEPT !.entry = "create_quiz_from_url",
                                    !.url = Some(u),
                                    !.raised = "ValueError",
                                    !.pc = "done"],
                     <<"create_quiz_from_url:call",
                       "create_quiz_from_url:raise">>))
     ELSE Set(r, Log([req[r] EXCEPT !.entry = "create_quiz_from_url",
                                    !.url = Some(u),
                                    !.pc = "download"],
                     <<"create_quiz_from_url:call",
                       "download_youtube_audio:call">>))
  /\ UNCHANGED <<GEMINI_API_KEY, files, pure>>

\* create_quiz_from_url(url, user), up to the call of line 271
CallCreateQuizFromUrl(r, u) ==
  /\ req[r].pc = "idle"
  /\ Set(r, Log([req[r] EXCEPT !.entry = "create_quiz_from_url",
                               !.url = Some(u),
                               !.pc = "download"],
                <<"create_quiz_from_url:call",
                  "download_youtube_audio:call">>))
  /\ UNCHANGED <<GEMINI_API_KEY, files, pure>>

\* transcribe_audio(path) called directly
CallTranscribeAudio(r, p) ==
  /\ req[r].pc = "idle"
  /\ Set(r, Log([req[r] EXCEPT !.entry = "transcribe_audio",
                               !.audio_file_path = Some(p),
                               !.pc = "whisper"],
                <<"transcribe_audio:call">>))
  /\ UNCHANGED <<GEMINI_API_KEY, files, pure>>

\* generate_quiz_with_gemini(transcript) called directly
CallGenerateQuiz(r, t) ==
  /\ req[r].pc = "idle"
  /\ Set(r, Log([req[r] EXCEPT !.entry = "generate_quiz_with_gemini",
                               !.transcript = Some(t),
                               !.pc = "generate"],
                <<"generate_quiz_with_gemini:call">>))
  /\ UNCHANGED <<GEMINI_API_KEY, files, pure>>

\* An exception leaves the stage; create_quiz_from_url has no handler, so it
\* leaves create_quiz_from_url too and reaches the caller.
Propagate(frame, exc, stage_raise) ==
  Log([frame EXCEPT !.raised = exc, !.pc = "done"],
      IF frame.entry = "create_quiz_from_url"
      THEN <<stage_raise, "create_quiz_from_url:raise">>
      ELSE <<stage_raise>>)

(***************************************************************************)
(* download_youtube_audio, lines 38-57.                                    *)
(***************************************************************************)
\* extract_info(url, download=True) writes the audio file, overwriting what
\* is at the path; line 271 stores the path and line 272 calls the
\* transcriber with it.
DownloadOk(r) ==
  /\ req[r].pc = "download"
  /\ LET path == PrepareFilename(req[r].url[1])
     IN  /\ files' = [files EXCEPT ![path] = r]
         /\ Set(r, Log([req[r] EXCEPT !.audio_file = Some(path),
                                      !.audio_file_path = Some(path),
                                      !.pc = "whisper"],
                       <<"download_youtube_audio:return",
                         "transcribe_audio:call">>))
  /\ UNCHANGED <<GEMINI_API_KEY, pure>>

\* extract_info raises (invalid URL, network failure, no stream).
DownloadFail(r) ==
  /\ req[r].pc = "download"
  /\ Set(r, Propagate(req[r], "DownloadError",
                      "download_youtube_audio:raise"))
  /\ UNCHANGED <<GEMINI_API_KEY, files, pure>>

(***************************************************************************)
(* transcribe_audio, lines 142-157, and cleanup_audio_file, lines 60-68.   *)
(***************************************************************************)
\* WHISPER_MODEL.transcribe reads the file and returns result["text"]; the
\* return value waits while the finally block runs.
WhisperOk(r, text) ==
  /\ req[r].pc = "whisper"
  /\ files[req[r].audio_file_path[1]] # NoFile
  /\ Set(r, Log([req[r] EXCEPT !.pending = "return",
                               !.pending_text = Some(text),
                               !.pc = "cleanup"],
                <<"whisper:return">>))
  /\ UNCHANGED <<GEMINI_API_KEY, files, pure>>

\* WHISPER_MODEL.transcribe raises (it must when the file is missing); the
\* exception waits while the finally block runs.
WhisperFail(r) ==
  /\ req[r].pc = "whisper"
  /\ Set(r, Log([req[r] EXCEPT !.pending = "raise",
                               !.pending_exc = "RuntimeError",
                               !.pc = "cleanup"],
                <<"whisper:raise">>))
  /\ UNCHANGED <<GEMINI_API_KEY, files, pure>>

\* finally: cleanup_audio_file(audio_file_path) is called and evaluates
\* os.path.exists (line 67).
CleanupExists(r) ==
  /\ req[r].pc = "cleanup"
  /\ LET path == req[r].audio_file_path[1]
     IN  Set(r, Log([req[r] EXCEPT
                       !.cleanup_args = Append(@, path),
                       !.pc = IF files[path] # NoFile THEN "remove"
                              ELSE "exit_transcribe"],
                    IF files[path] # NoFile
                    THEN <<"cleanup_audio_file:call">>
                    ELSE <<"cleanup_audio_file:call",
                           "cleanup_audio_file:return">>))
  /\ UNCHANGED <<GEMINI_API_KEY, files, pure>>

\* os.remove (line 68): removes the file, or raises FileNotFoundError when
\* the file has gone since line 67; an exception raised in the finally block
\* replaces what the try block left.
CleanupRemove(r) ==
  /\ req[r].pc = "remove"
  /\ LET path == req[r].audio_file_path[1]
     IN  IF files[path] # NoFile
         THEN /\ files' = [files EXCEPT ![path] = NoFile]
              /\ Set(r, Log([req[r] EXCEPT !.pc = "exit_transcribe"],
                            <<"cleanup_audio_file:return">>))
         ELSE /\ files' = files
              /\ Set(r, Log([req[r] EXCEPT !.pending = "raise",
                                           !.pending_text = None,
                                           !.pending_exc = "FileNotFoundError",
                                           !.pc = "exit_transcribe"],
                            <<"cleanup_audio_file:raise">>))
  /\ UNCHANGED <<GEMINI_API_KEY, pure>>

\* transcribe_audio is left: the pending return value or exception reaches
\* its caller; line 273 calls the generator with the transcript.
ExitTranscribe(r) ==
  /\ req[r].pc = "exit_transcribe"
  /\ IF req[r].pending = "raise"
     THEN Set(r, Propagate(req[r], req[r].pending_exc,
                           "transcribe_audio:raise"))
     ELSE IF req[r].entry = "transcribe_audio"
     THEN Set(r, Log([req[r] EXCEPT !.ret_text = req[r].pending_text,
                                    !.pc = "done"],
                     <<"transcribe_audio:return">>))
     ELSE Set(r, Log([req[r] EXCEPT
                        !.transcript_local = req[r].pending_text,
                        !.transcript = req[r].pending_text,
                        !.pc = "generate"],
                     <<"transcribe_audio:return",
                       "generate_quiz_with_gemini:call">>))
  /\ UNCHANGED <<GEMINI_API_KEY, files, pure>>

(***************************************************************************)
(* generate_quiz_with_gemini, lines 235-257, and create_quiz_from_url's    *)
(* return, line 274.                                                       *)
(***************************************************************************)
\* A plausible slip: the credential check is missing.
GenerateCheckKey_NoCheck(r) ==
  /\ req[r].pc = "generate"
  /\ Set(r, Log([req[r] EXCEPT
                   !.prompt = Some(build_gemini_prompt(req[r].transcript[1])),
                   !.pc = "call_gemini"],
                <<"call_gemini_api:call">>))
  /\ UNCHANGED <<GEMINI_API_KEY, files, pure>>

\* Lines 248-252: without a credential ValueError is raised; otherwise the
\* prompt is built and call_gemini_api is called with it.
GenerateCheckKey(r) ==
  /\ req[r].pc = "generate"
  /\ IF GEMINI_API_KEY = ""
     THEN Set(r, Propagate(req[r], "ValueError",
                           "generate_quiz_with_gemini:raise"))
     ELSE Set(r, Log([req[r] EXCEPT
                        !.prompt =
                          Some(build_gemini_prompt(req[r].transcript[1])),
                        !.pc = "call_gemini"],
                     <<"call_gemini_api:call">>))
  /\ UNCHANGED <<GEMINI_API_KEY, files, pure>>

\* call_gemini_api returns the service's text.
CallGeminiOk(r, raw) ==
  /\ req[r].pc = "call_gemini"
  /\ Set(r, Log([req[r] EXCEPT !.response_text = Some(raw),
                               !.pc = "parse"],
                <<"call_gemini_api:return">>))
  /\ UNCHANGED <<GEMINI_API_KEY, files, pure>>

\* A plausible slip: a failed AI call is tried again.
CallGeminiFail_Retry(r) ==
  /\ req[r].pc = "call_gemini"
  /\ Len(req[r].log) < 12
  /\ Set(r, Log(req[r], <<"call_gemini_api:raise", "call_gemini_api:call">>))
  /\ UNCHANGED <<GEMINI_API_KEY, files, pure>>

\* call_gemini_api raises (transport or model error).
CallGeminiFail(r) ==
  /\ req[r].pc = "call_gemini"
  /\ Set(r, Propagate(Log([req[r] EXCEPT !.prompt = None],
                          <<"call_gemini_api:raise">>),
                      "ClientError", "generate_quiz_with_gemini:raise"))
  /\ UNCHANGED <<GEMINI_API_KEY, files, pure>>

\* A plausible change: after a parse error the service is asked again.
ParseResponse_Reprompts(r) ==
  /\ req[r].pc = "parse"
  /\ LET cleaned_text == clean_json_response(req[r].response_text[1])
         loaded == json_loads(cleaned_text)
     IN  IF loaded = None
         THEN /\ Len(req[r].log) < 12
              /\ Set(r, Log([req[r] EXCEPT !.response_text = None,
                                           !.pc = "call_gemini"],
                            <<"json.loads:raise", "call_gemini_api:call">>))
         ELSE LET data == Some(normalize_question_keys(loaded[1]))
              IN  Set(r, Log([req[r] EXCEPT
                                !.prompt = None,
                                !.generated = data,
                                !.quiz_data =
                                  IF req[r].entry = "create_quiz_from_url"
                                  THEN data ELSE None,
                                !.ret_data =
                                  IF req[r].entry = "create_quiz_from_url"
                                  THEN None ELSE data,
                                !.pc =
                                  IF req[r].entry = "create_quiz_from_url"
                                  THEN "return" ELSE "done"],
                             <<"generate_quiz_with_gemini:return">>))
  /\ UNCHANGED <<GEMINI_API_KEY, files, pure>>

\* Lines 253-257: clean, json.loads, normalize, return.  A parse error
\* leaves the function; otherwise the normalized payload is returned, and in
\* create_quiz_from_url stored in quiz_data (line 273).
ParseResponse(r) ==
  /\ req[r].pc = "parse"
  /\ LET cleaned_text == clean_json_response(req[r].response_text[1])
         loaded == json_loads(cleaned_text)
         frame == [req[r] EXCEPT !.prompt = None]
     IN  IF loaded = None
         THEN Set(r, Propagate(Log(frame, <<"json.loads:raise">>),
                               "JSONDecodeError",
                               "generate_quiz_with_gemini:raise"))
         ELSE LET data == Some(normalize_question_keys(loaded[1]))
              IN  IF req[r].entry = "generate_quiz_with_gemini"
                  THEN Set(r, Log([frame EXCEPT !.generated = data,
                                                !.ret_data = data,
                                                !.pc = "done"],
                                  <<"generate_quiz_with_gemini:return">>))
                  ELSE Set(r, Log([frame EXCEPT !.generated = data,
                                                !.quiz_data = data,
                                                !.pc = "return"],
                                  <<"generate_quiz_with_gemini:return">>))
  /\ UNCHANGED <<GEMINI_API_KEY, files, pure>>

\* A plausible slip: the payload is returned inside an envelope.
CreateQuizReturn_Wrapped(r) ==
  /\ req[r].pc = "return"
  /\ Set(r, Log([req[r] EXCEPT
                   !.ret_data = Some([quiz |-> req[r].quiz_data[1]]),
                   !.pc = "done"],
                <<"create_quiz_from_url:return">>))
  /\ UNCHANGED <<GEMINI_API_KEY, files, pure>>

\* Line 274: return quiz_data
CreateQuizReturn(r) ==
  /\ req[r].pc = "return"
  /\ Set(r, Log([req[r] EXCEPT !.ret_data = req[r].quiz_data,
                               !.pc = "done"],
                <<"create_quiz_from_url:return">>))
  /\ UNCHANGED <<GEMINI_API_KEY, files, pure>>

(***************************************************************************)
(* Specifications of the pipeline.                                         *)
(***************************************************************************)
\* One step of a call in flight.
Step(r) ==
  \/ DownloadOk(r)
  \/ DownloadFail(r)
  \/ \E text \in Transcripts : WhisperOk(r, text)
  \/ WhisperFail(r)
  \/ CleanupExists(r)
  \/ CleanupRemove(r)
  \/ ExitTranscribe(r)
  \/ GenerateCheckKey(r)
  \/ \E raw \in RawResponses : CallGeminiOk(r, raw)
  \/ CallGeminiFail(r)
  \/ ParseResponse(r)
  \/ CreateQuizReturn(r)

\* A caller starts a call.  Calls are numbered in order of arrival.
Start(r) ==
  /\ \A earlier \in 1..(r - 1) : req[earlier].pc # "idle"
  /\ \/ \E u \in Urls : CallCreateQuizFromUrl(r, u)
     \/ \E p \in Paths : CallTranscribeAudio(r, p)
     \/ \E t \in Transcripts : CallGenerateQuiz(r, t)

\* Section 5 of the design: blocking execution, one call at a time; a call
\* starts only when none is in flight.
Next ==
  /\ \E r \in Requests : (Quiescent /\ Start(r)) \/ Step(r)
  /\ UNCHANGED apiVars

Spec == InitPipeline /\ [][Next]_vars

\* Calls served by concurrent workers: any interleaving of their steps.
NextInterleaved ==
  /\ \E r \in Requests : Start(r) \/ Step(r)
  /\ UNCHANGED apiVars

SpecInterleaved == InitPipeline /\ [][NextInterleaved]_vars

(***************************************************************************)
(* The web layer: authentication, the ORM calls and the serializers.       *)
(***************************************************************************)
MaxQuizzes == 2
MaxTokens == 2
MaxLogins == 2

\* CookieJWTAuthentication.authenticate(request): the user of a valid access
\* token in cookie access_token, None otherwise.
Authenticate(cookie) ==
  IF cookie # None /\ cookie[1].type = "access" /\ ~cookie[1].expired
  THEN Some(cookie[1].user)
  ELSE None

\* What a client may send as cookie access_token.
AccessCookies ==
  {None, Some(ExpiredAccess), Some(RefreshOf("alice"))}
    \cup { Some(AccessOf(RefreshOf(u), 0)) : u \in Users }

\* What a client may send as cookie refresh_token.
RefreshCookies ==
  {None, Some(Garbage), Some(ExpiredRefresh),
   Some(AccessOf(RefreshOf("alice"), 0))}
    \cup { Some(RefreshOf(u)) : u \in Users }

\* RefreshToken(refresh_token) raises TokenError unless the string is a
\* refresh token whose lifetime has not passed and that is not blacklisted.
ValidRefresh(token, a) ==
  /\ token.type = "refresh"
  /\ ~token.expired
  /\ token.jti \notin a.blacklist

\* Request bodies of the create-quiz endpoint, and CreateQuizSerializer's
\* is_valid(): url is required and must be a URL.
ApiUrls == {"watch?v=a", "watch?v=b"}
Bodies ==
  { [url |-> u] : u \in ApiUrls \cup {"not-a-url"} } \cup { [x \in {} |-> x] }
IsValid(body) == "url" \in DOMAIN body /\ body.url \in Urls

\* Response(data, status) with the cookies set on it.
Response(v, status, body, cookies) ==
  [view |-> v, status |-> status, body |-> body, cookies |-> cookies,
   presented |-> None]

\* The response of an authentication view, together with the refresh_token
\* cookie its request presented.
AuthResponse(v, refresh_token, status, body, cookies) ==
  [view |-> v, status |-> status, body |-> body, cookies |-> cookies,
   presented |-> refresh_token]

NoCookies == [c \in {} |-> c]

\* The response of a view the permission check did not let through.
NotAuthenticated(v) ==
  Response(v, 401,
           [detail |-> "Authentication credentials were not provided."],
           NoCookies)

\* An exception as the view sees it: its type and its arguments.
Exception(type, args) == [type |-> type, args |-> args]

\* The exception create_quiz_from_url raised, by the type the frame holds.
PipelineException(type) ==
  Exception(type,
    IF type = "ValueError" THEN "GEMINI_API_KEY is not set"
    ELSE IF type = "DownloadError" THEN "ERROR: Video unavailable"
    ELSE IF type = "RuntimeError" THEN "Failed to load audio"
    ELSE IF type = "FileNotFoundError"
         THEN "[Errno 2] No such file or directory"
    ELSE IF type = "ClientError" THEN "503 UNAVAILABLE"
    ELSE "Expecting value: line 1 column 1 (char 0)")

\* str(e), as a sequence of text pieces: a KeyError shows the repr of its
\* key, the other exceptions their message.
Str(e) ==
  IF e.type = "KeyError" THEN <<"'", e.args, "'">> ELSE <<e.args>>

\* The rows of Question that belong to quiz pk.
QuestionsOf(d, pk) ==
  { q \in DOMAIN d.questions : d.questions[q].quiz = pk }

\* QuizSerializer(quiz).data
SerializeQuiz(d, pk) ==
  [id |-> pk,
   title |-> d.quizzes[pk].title,
   description |-> d.quizzes[pk].description,
   video_url |-> d.quizzes[pk].video_url,
   questions |->
     { [id |-> q,
        question_title |-> d.questions[q].question_title,
        question_options |-> d.questions[q].question_options,
        answer |-> d.questions[q].answer] : q \in QuestionsOf(d, pk) }]

\* utils.create_question_in_db(quiz, q_data): the keyword arguments are
\* evaluated in order, a missing key raises KeyError before the row is
\* written.
create_question_in_db(d, quiz, q_data) ==
  IF "question" \notin DOMAIN q_data
  THEN [db |-> d, exc |-> Some(Exception("KeyError", "question"))]
  ELSE IF "options" \notin DOMAIN q_data
  THEN [db |-> d, exc |-> Some(Exception("KeyError", "options"))]
  ELSE IF "answer" \notin DOMAIN q_data
  THEN [db |-> d, exc |-> Some(Exception("KeyError", "answer"))]
  ELSE [db |-> [d EXCEPT
                  !.questions =
                    Put(@, d.next_question,
                        [quiz |-> quiz,
                         question_title |-> q_data["question"],
                         question_options |-> q_data["options"],
                         answer |-> q_data["answer"]]),
                  !.next_question = @ + 1],
        exc |-> None]

\* for q_data in quiz_data['questions']: create_question_in_db(quiz, q_data)
RECURSIVE create_questions(_, _, _)
create_questions(d, quiz, q_list) ==
  IF q_list = << >> THEN [db |-> d, exc |-> None]
  ELSE LET first == create_question_in_db(d, quiz, Head(q_list))
       IN  IF first.exc # None THEN first
           ELSE create_questions(first.db, quiz, Tail(q_list))

\* A plausible slip: the description of the payload is not passed on.
create_quiz_in_db_NoDescription(d, user, quiz_data, url) ==
  IF "title" \notin DOMAIN quiz_data
  THEN [db |-> d, exc |-> Some(Exception("KeyError", "title")), pk |-> 0]
  ELSE
    LET pk == d.next_quiz
        row == [user |-> user,
                title |-> quiz_data["title"],
                description |-> "",
                video_url |-> url]
        created == [d EXCEPT !.quizzes = Put(@, pk, row),
                             !.next_quiz = @ + 1]
    IN  IF "questions" \notin DOMAIN quiz_data
        THEN [db |-> created,
              exc |-> Some(Exception("KeyError", "questions")),
              pk |-> pk]
        ELSE LET done == create_questions(created, pk, quiz_data["questions"])
             IN  [db |-> done.db, exc |-> done.exc, pk |-> pk]

\* create_quiz_in_db(user, quiz_data, url): the tables afterwards, the
\* exception that left the function if any, and the primary key of the quiz.
\* Each ORM call commits on its own.
create_quiz_in_db(d, user, quiz_data, url) ==
  IF "title" \notin DOMAIN quiz_data
  THEN [db |-> d, exc |-> Some(Exception("KeyError", "title")), pk |-> 0]
  ELSE
    LET pk == d.next_quiz
        row == [user |-> user,
                title |-> quiz_data["title"],
                description |->
                  IF "description" \in DOMAIN quiz_data
                  THEN quiz_data["description"] ELSE "",
                video_url |-> url]
        created == [d EXCEPT !.quizzes = Put(@, pk, row),
                             !.next_quiz = @ + 1]
    IN  IF "questions" \notin DOMAIN quiz_data
        THEN [db |-> created,
              exc |-> Some(Exception("KeyError", "questions")),
              pk |-> pk]
        ELSE LET done == create_questions(created, pk, quiz_data["questions"])
             IN  [db |-> done.db, exc |-> done.exc, pk |-> pk]

\* quiz.delete(): the row goes, and with it the questions whose foreign key
\* names it (on_delete=CASCADE).
QuizDelete(d, pk) ==
  [d EXCEPT !.quizzes = Pop(@, pk),
            !.questions =
              [q \in (DOMAIN @) \ QuestionsOf(d, pk) |-> @[q]]]

(***************************************************************************)
(* quizzes/api/views.py                                                    *)
(***************************************************************************)
\* The number of create-quiz requests whose pipeline is running.
InFlight == Cardinality({ r \in Requests : view[r].pc = "pipeline" })

\* A plausible slip: the result of is_valid() is not looked at and the url is
\* taken from the request data.
CreateQuizViewEnter_NoValidation(r, cookie, body) ==
  /\ view[r].pc = "idle"
  /\ req[r].pc = "idle"
  /\ LET user == Authenticate(cookie)
     IN  IF user = None
         THEN /\ response' = NotAuthenticated("create_quiz_view")
              /\ UNCHANGED <<GEMINI_API_KEY, files, req, pure, view>>
         ELSE /\ db.next_quiz + InFlight <= MaxQuizzes
              /\ "url" \in DOMAIN body
              /\ view' = [view EXCEPT ![r] = [pc |-> "pipeline",
                                              user |-> user,
                                              url |-> Some(body.url)]]
              /\ CallCreateQuizFromUrl(r, "watch?v=b")
              /\ response' = NoResponse
  /\ UNCHANGED <<db, auth>>

\* create_quiz_view up to the call of create_quiz_from_url (lines 59-76 and
\* 50-51): 401 without an authenticated user, 400 for an invalid body,
\* otherwise the pipeline starts with the validated url and the response is
\* pending.
CreateQuizViewEnter(r, cookie, body) ==
  /\ view[r].pc = "idle"
  /\ req[r].pc = "idle"
  /\ LET user == Authenticate(cookie)
     IN  IF user = None
         THEN /\ response' = NotAuthenticated("create_quiz_view")
              /\ UNCHANGED <<GEMINI_API_KEY, files, req, pure, view>>
         ELSE IF ~IsValid(body)
         THEN /\ response' =
                   Response("create_quiz_view", 400,
                            [url |-> IF "url" \in DOMAIN body
                                     THEN "Enter a valid URL."
                                     ELSE "This field is required."],
                            NoCookies)
              /\ UNCHANGED <<GEMINI_API_KEY, files, req, pure, view>>
         ELSE /\ db.next_quiz + InFlight <= MaxQuizzes
              /\ view' = [view EXCEPT ![r] = [pc |-> "pipeline",
                                              user |-> user,
                                              url |-> Some(body.url)]]
              /\ CallCreateQuizFromUrl(r, body.url)
              /\ response' = NoResponse
  /\ UNCHANGED <<db, auth>>

\* A plausible slip: the try block covers the pipeline only, so an exception
\* of create_quiz_in_db leaves the view and the framework answers with its
\* own 500 page.
CreateQuizViewFinish_TryAroundPipelineOnly(r) ==
  /\ view[r].pc = "pipeline"
  /\ req[r].pc = "done"
  /\ IF req[r].raised # "none"
     THEN /\ response' =
               Response("create_quiz_view", 500,
                        [detail |-> <<"Error creating quiz: ">>
                                      \o Str(PipelineException(req[r].raised))],
                        NoCookies)
          /\ db' = db
     ELSE LET made == create_quiz_in_db(db, view[r].user[1],
                                       req[r].ret_data[1], view[r].url[1])
          IN  /\ db' = made.db
              /\ response' =
                   IF made.exc # None
                   THEN Response("django", 500, <<"Server Error (500)">>,
                                 NoCookies)
                   ELSE Response("create_quiz_view", 201,
                                 SerializeQuiz(made.db, made.pk), NoCookies)
  /\ view' = [view EXCEPT ![r] = IdleView]
  /\ req' = [req EXCEPT ![r] = IdleFrame]
  /\ UNCHANGED <<GEMINI_API_KEY, files, pure, auth>>

\* create_quiz_view from the return of create_quiz_from_url (lines 51-56 and
\* 77-81): an exception of the pipeline or of create_quiz_in_db becomes the
\* 500 response, otherwise the quiz is stored and serialized into the 201
\* response.
CreateQuizViewFinish(r) ==
  /\ view[r].pc = "pipeline"
  /\ req[r].pc = "done"
  /\ IF req[r].raised # "none"
     THEN /\ response' =
               Response("create_quiz_view", 500,
                        [detail |-> <<"Error creating quiz: ">>
                                      \o Str(PipelineException(req[r].raised))],
                        NoCookies)
          /\ db' = db
     ELSE LET made == create_quiz_in_db(db, view[r].user[1],
                                       req[r].ret_data[1], view[r].url[1])
          IN  /\ db' = made.db
              /\ response' =
                   IF made.exc # None
                   THEN Response("create_quiz_view", 500,
                                 [detail |-> <<"Error creating quiz: ">>
                                               \o Str(made.exc[1])],
                                 NoCookies)
                   ELSE Response("create_quiz_view", 201,
                                 SerializeQuiz(made.db, made.pk), NoCookies)
  /\ view' = [view EXCEPT ![r] = IdleView]
  /\ req' = [req EXCEPT ![r] = IdleFrame]
  /\ UNCHANGED <<GEMINI_API_KEY, files, pure, auth>>

\* quiz_list_view, lines 84-98.
QuizListView(cookie) ==
  /\ LET user == Authenticate(cookie)
     IN  response' =
           IF user = None THEN NotAuthenticated("quiz_list_view")
           ELSE Response("quiz_list_view", 200,
                         { SerializeQuiz(db, pk) :
                             pk \in { k \in DOMAIN db.quizzes :
                                        db.quizzes[k].user = user[1] } },
                         NoCookies)
  /\ UNCHANGED <<GEMINI_API_KEY, files, req, pure, view, db, auth>>

Methods == {"GET", "PATCH", "DELETE"}
QuizPks == 1..MaxQuizzes

\* Bodies of a PATCH, and QuizSerializer's is_valid() for them: the title
\* may not be blank.
PatchData == { [title |-> "U"], [title |-> ""] }
IsValidPatch(data) == data.title # ""

\* A plausible slip: the quiz is looked up by primary key alone.
QuizDetailView_NoOwnerFilter(cookie, method, pk, data) ==
  /\ LET user == Authenticate(cookie)
     IN  IF user = None
         THEN /\ response' = NotAuthenticated("quiz_detail_view")
              /\ db' = db
         ELSE IF pk \notin DOMAIN db.quizzes
         THEN /\ response' =
                   Response("quiz_detail_view", 404,
                            [detail |-> "No Quiz matches the given query."],
                            NoCookies)
              /\ db' = db
         ELSE IF method = "GET"
         THEN /\ response' = Response("quiz_detail_view", 200,
                                      SerializeQuiz(db, pk), NoCookies)
              /\ db' = db
         ELSE IF method = "PATCH"
         THEN IF ~IsValidPatch(data)
              THEN /\ response' =
                        Response("quiz_detail_view", 400,
                                 [title |-> "This field may not be blank."],
                                 NoCookies)
                   /\ db' = db
              ELSE /\ db' = [db EXCEPT !.quizzes[pk].title = data.title]
                   /\ response' = Response("quiz_detail_view", 200,
                                           SerializeQuiz(db', pk), NoCookies)
         ELSE /\ db' = QuizDelete(db, pk)
              /\ response' = Response("quiz_detail_view", 204, None,
                                      NoCookies)
  /\ UNCHANGED <<GEMINI_API_KEY, files, req, pure, view, auth>>

\* A plausible slip: DELETE removes the row of the quiz with a statement
\* that does not cascade.
QuizDetailView_DeleteWithoutCascade(cookie, method, pk, data) ==
  /\ LET user == Authenticate(cookie)
     IN  IF user = None
         THEN /\ response' = NotAuthenticated("quiz_detail_view")
              /\ db' = db
         ELSE IF ~(pk \in DOMAIN db.quizzes /\ db.quizzes[pk].user = user[1])
         THEN /\ response' =
                   Response("quiz_detail_view", 404,
                            [detail |-> "No Quiz matches the given query."],
                            NoCookies)
              /\ db' = db
         ELSE IF method = "GET"
         THEN /\ response' = Response("quiz_detail_view", 200,
                                      SerializeQuiz(db, pk), NoCookies)
              /\ db' = db
         ELSE IF method = "PATCH"
         THEN IF ~IsValidPatch(data)
              THEN /\ response' =
                        Response("quiz_detail_view", 400,
                                 [title |-> "This field may not be blank."],
                                 NoCookies)
                   /\ db' = db
              ELSE /\ db' = [db EXCEPT !.quizzes[pk].title = data.title]
                   /\ response' = Response("quiz_detail_view", 200,
                                           SerializeQuiz(db', pk), NoCookies)
         ELSE /\ db' = [db EXCEPT !.quizzes = Pop(@, pk)]
              /\ response' = Response("quiz_detail_view", 204, None,
                                      NoCookies)
  /\ UNCHANGED <<GEMINI_API_KEY, files, req, pure, view, auth>>

\* quiz_detail_view, lines 147-167, with handle_get_quiz, handle_patch_quiz
\* and handle_delete_quiz.
QuizDetailView(cookie, method, pk, data) ==
  /\ LET user == Authenticate(cookie)
     IN  IF user = None
         THEN /\ response' = NotAuthenticated("quiz_detail_view")
              /\ db' = db
         ELSE IF ~(pk \in DOMAIN db.quizzes /\ db.quizzes[pk].user = user[1])
         THEN /\ response' =
                   Response("quiz_detail_view", 404,
                            [detail |-> "No Quiz matches the given query."],
                            NoCookies)
              /\ db' = db
         ELSE IF method = "GET"
         THEN /\ response' = Response("quiz_detail_view", 200,
                                      SerializeQuiz(db, pk), NoCookies)
              /\ db' = db
         ELSE IF method = "PATCH"
         THEN IF ~IsValidPatch(data)
              THEN /\ response' =
                        Response("quiz_detail_view", 400,
                                 [title |-> "This field may not be blank."],
                                 NoCookies)
                   /\ db' = db
              ELSE /\ db' = [db EXCEPT !.quizzes[pk].title = data.title]
                   /\ response' = Response("quiz_detail_view", 200,
                                           SerializeQuiz(db', pk), NoCookies)
         ELSE /\ db' = QuizDelete(db, pk)
              /\ response' = Response("quiz_detail_view", 204, None,
                                      NoCookies)
  /\ UNCHANGED <<GEMINI_API_KEY, files, req, pure, view, auth>>

(***************************************************************************)
(* authentication/api/views.py                                             *)
(***************************************************************************)
\* response.delete_cookie(key): the cookie is sent back empty and expired.
DeletedCookie == [value |-> None, max_age |-> 0, httponly |-> FALSE]

\* response.set_cookie(key, str(token), httponly=JWT_COOKIE_HTTP_ONLY, ...)
JWT_COOKIE_HTTP_ONLY == TRUE
AuthCookie(token) ==
  [value |-> Some(token), max_age |-> 1, httponly |-> JWT_COOKIE_HTTP_ONLY]

LogoutDetail ==
  <<"Log-Out successfully! All Tokens will be deleted. ",
    "Refresh token is now invalid.">>

\* The credential store: the registered users and their passwords.
Passwords == [u \in Users |-> IF u = "alice" THEN "pa" ELSE "pb"]

\* authenticate_user, lines 44-46: the user the credentials belong to.
authenticate_user(username, password) ==
  IF username \in Users /\ Passwords[username] = password
  THEN Some(username)
  ELSE None

\* Request bodies of the login endpoint, and LoginSerializer's is_valid():
\* username and password are required.
LoginBodies ==
  { [username |-> u, password |-> p] :
      u \in Users \cup {"mallory"}, p \in {"pa", "pb"} }
    \cup {[username |-> "alice"], [password |-> "pa"], [x \in {} |-> x]}
IsValidLogin(body) == {"username", "password"} \subseteq DOMAIN body

\* serializer.errors of an invalid login body.
LoginErrors(body) ==
  [f \in {"username", "password"} \ DOMAIN body |->
     "This field is required."]

\* RefreshToken.for_user(user): the next refresh token, never issued before.
ForUser(user, a) ==
  Token("refresh", user, 3 + Cardinality(a.issued) + 1, FALSE)

\* create_login_response, lines 49-58.
create_login_response(user, a) ==
  LET refresh == ForUser(user, a)
      access_token == AccessOf(refresh, a.minted + 1)
  IN  [auth |-> [a EXCEPT !.issued = @ \cup {refresh},
                          !.minted = @ + 1],
       response |->
         Response("login_view", 200,
                  [detail |-> "Login successfully!",
                   user |-> [username |-> user]],
                  [c \in {"access_token", "refresh_token"} |->
                     IF c = "access_token"
                     THEN AuthCookie(access_token)
                     ELSE AuthCookie(refresh)])]

\* A plausible slip: the password is not compared.
LoginView_AnyPassword(body) ==
  /\ IF ~IsValidLogin(body)
     THEN /\ response' = Response("login_view", 400, LoginErrors(body),
                                  NoCookies)
          /\ auth' = auth
     ELSE IF body.username \notin Users
     THEN /\ response' = Response("login_view", 401,
                                  [detail |-> "Invalid credentials"],
                                  NoCookies)
          /\ auth' = auth
     ELSE /\ Cardinality(auth.issued) < MaxLogins
          /\ auth.minted < MaxTokens
          /\ auth' = create_login_response(body.username, auth).auth
          /\ response' = create_login_response(body.username, auth).response
  /\ UNCHANGED <<GEMINI_API_KEY, files, req, pure, view, db>>

\* login_view, lines 75-89, with validate_and_authenticate.
LoginView(body) ==
  /\ IF ~IsValidLogin(body)
     THEN /\ response' = Response("login_view", 400, LoginErrors(body),
                                  NoCookies)
          /\ auth' = auth
     ELSE LET user == authenticate_user(body.username, body.password)
          IN  IF user = None
              THEN /\ response' = Response("login_view", 401,
                                           [detail |-> "Invalid credentials"],
                                           NoCookies)
                   /\ auth' = auth
              ELSE /\ Cardinality(auth.issued) < MaxLogins
                   /\ auth.minted < MaxTokens
                   /\ auth' = create_login_response(user[1], auth).auth
                   /\ response' = create_login_response(user[1], auth).response
  /\ UNCHANGED <<GEMINI_API_KEY, files, req, pure, view, db>>

\* A plausible slip: logout is open to anyone, like login and refresh.
LogoutView_AllowAny(cookie, refresh_token) ==
  /\ IF refresh_token # None /\ ~ValidRefresh(refresh_token[1], auth)
     THEN /\ response' =
               AuthResponse("logout_view", refresh_token, 400,
                            [detail |-> "Invalid or expired token"],
                            NoCookies)
          /\ auth' = auth
     ELSE /\ auth' = IF refresh_token = None THEN auth
                     ELSE [auth EXCEPT
                             !.blacklist = @ \cup {refresh_token[1].jti}]
          /\ response' =
               AuthResponse("logout_view", refresh_token, 200,
                            [detail |-> LogoutDetail],
                            [c \in {"access_token", "refresh_token"} |->
                               DeletedCookie])
  /\ UNCHANGED <<GEMINI_API_KEY, files, req, pure, view, db>>

\* A plausible slip: logout only deletes the cookies.
LogoutView_CookiesOnly(cookie, refresh_token) ==
  /\ IF Authenticate(cookie) = None
     THEN /\ response' = [NotAuthenticated("logout_view") EXCEPT
                            !.presented = refresh_token]
          /\ auth' = auth
     ELSE /\ auth' = auth
          /\ response' =
               AuthResponse("logout_view", refresh_token, 200,
                            [detail |-> LogoutDetail],
                            [c \in {"access_token", "refresh_token"} |->
                               DeletedCookie])
  /\ UNCHANGED <<GEMINI_API_KEY, files, req, pure, view, db>>

\* A plausible change: a refresh token that cannot be blacklisted does not
\* keep logout from clearing the cookies.
LogoutView_AlwaysClears(cookie, refresh_token) ==
  /\ IF Authenticate(cookie) = None
     THEN /\ response' = [NotAuthenticated("logout_view") EXCEPT
                            !.presented = refresh_token]
          /\ auth' = auth
     ELSE /\ auth' = IF refresh_token = None
                        \/ ~ValidRefresh(refresh_token[1], auth)
                     THEN auth
                     ELSE [auth EXCEPT
                             !.blacklist = @ \cup {refresh_token[1].jti}]
          /\ response' =
               AuthResponse("logout_view", refresh_token, 200,
                            [detail |-> LogoutDetail],
                            [c \in {"access_token", "refresh_token"} |->
                               DeletedCookie])
  /\ UNCHANGED <<GEMINI_API_KEY, files, req, pure, view, db>>

\* logout_view, lines 107-121, with blacklist_refresh_token and
\* create_logout_response.
LogoutView(cookie, refresh_token) ==
  /\ IF Authenticate(cookie) = None
     THEN /\ response' = [NotAuthenticated("logout_view") EXCEPT
                            !.presented = refresh_token]
          /\ auth' = auth
     ELSE IF refresh_token # None /\ ~ValidRefresh(refresh_token[1], auth)
     THEN /\ response' =
               AuthResponse("logout_view", refresh_token, 400,
                            [detail |-> "Invalid or expired token"],
                            NoCookies)
          /\ auth' = auth
     ELSE /\ auth' = IF refresh_token = None THEN auth
                     ELSE [auth EXCEPT
                             !.blacklist = @ \cup {refresh_token[1].jti}]
          /\ response' =
               AuthResponse("logout_view", refresh_token, 200,
                            [detail |-> LogoutDetail],
                            [c \in {"access_token", "refresh_token"} |->
                               DeletedCookie])
  /\ UNCHANGED <<GEMINI_API_KEY, files, req, pure, view, db>>

\* A plausible change: the refresh token is rotated, the presented one is
\* blacklisted and its successor is set as cookie.
RefreshTokenView_Rotates(refresh_token) ==
  /\ IF refresh_token = None
     THEN /\ response' =
               AuthResponse("refresh_token_view", refresh_token, 401,
                            [detail |-> "Refresh token not found"],
                            NoCookies)
          /\ auth' = auth
     ELSE IF ~ValidRefresh(refresh_token[1], auth)
     THEN /\ response' =
               AuthResponse("refresh_token_view", refresh_token, 401,
                            [detail |-> "Invalid or expired refresh token"],
                            NoCookies)
          /\ auth' = auth
     ELSE /\ auth.minted < MaxTokens
          /\ auth' = [auth EXCEPT
                        !.minted = @ + 1,
                        !.blacklist = @ \cup {refresh_token[1].jti}]
          /\ LET access_token == AccessOf(refresh_token[1], auth.minted + 1)
             IN  response' =
                   AuthResponse("refresh_token_view", refresh_token, 200,
                                [detail |-> "Token refreshed",
                                 access |-> access_token],
                                [c \in {"access_token", "refresh_token"} |->
                                   IF c = "access_token"
                                   THEN AuthCookie(access_token)
                                   ELSE AuthCookie(
                                          Token("refresh",
                                                refresh_token[1].user,
                                                3 + auth.minted + 1,
                                                FALSE))])
  /\ UNCHANGED <<GEMINI_API_KEY, files, req, pure, view, db>>

\* refresh_token_view, lines 147-159, with process_token_refresh and
\* create_refresh_response.  token.access_token is read once; the body and
\* the cookie carry the string of that one token.
RefreshTokenView(refresh_token) ==
  /\ IF refresh_token = None
     THEN /\ response' =
               AuthResponse("refresh_token_view", refresh_token, 401,
                            [detail |-> "Refresh token not found"],
                            NoCookies)
          /\ auth' = auth
     ELSE IF ~ValidRefresh(refresh_token[1], auth)
     THEN /\ response' =
               AuthResponse("refresh_token_view", refresh_token, 401,
                            [detail |-> "Invalid or expired refresh token"],
                            NoCookies)
          /\ auth' = auth
     ELSE /\ auth.minted < MaxTokens
          /\ auth' = [auth EXCEPT !.minted = @ + 1]
          /\ LET access_token == AccessOf(refresh_token[1], auth.minted + 1)
             IN  response' =
                   AuthResponse("refresh_token_view", refresh_token, 200,
                                [detail |-> "Token refreshed",
                                 access |-> access_token],
                                [c \in {"access_token"} |->
                                   AuthCookie(access_token)])
  /\ UNCHANGED <<GEMINI_API_KEY, files, req, pure, view, db>>

(***************************************************************************)
(* Specifications of the web layer.                                        *)
(***************************************************************************)
\* Raw texts call_gemini_api may return to a create-quiz request.
ApiRawResponses ==
  { Fenced(TagJson, JsonTextA), Fenced(TagPy, JsonTextA), JsonTextC,
    JsonTextD }

InitApi ==
  /\ GEMINI_API_KEY \in {"", "secret"}
  /\ files = [p \in Paths |-> NoFile]
  /\ req = [r \in Requests |-> IdleFrame]
  /\ pure = [fn |-> "none"]
  /\ ApiAtRest

\* One step of the pipeline of a create-quiz request in flight.
StepApi(r) ==
  /\ view[r].pc = "pipeline"
  /\ \/ DownloadOk(r)
     \/ DownloadFail(r)
     \/ \E text \in Transcripts : WhisperOk(r, text)
     \/ WhisperFail(r)
     \/ CleanupExists(r)
     \/ CleanupRemove(r)
     \/ ExitTranscribe(r)
     \/ GenerateCheckKey(r)
     \/ \E raw \in ApiRawResponses : CallGeminiOk(r, raw)
     \/ CallGeminiFail(r)
     \/ ParseResponse(r)
     \/ CreateQuizReturn(r)
  /\ UNCHANGED apiVars

\* A create-quiz request is being served.
Serving == \E r \in Requests : view[r].pc = "pipeline"

\* A request arrives and is handled up to its response, or up to the start
\* of the pipeline.  The worker with the lowest number takes it.
Arrive ==
  \/ \E r \in Requests, cookie \in AccessCookies, body \in Bodies :
       /\ \A lower \in 1..(r - 1) : view[lower].pc # "idle"
       /\ CreateQuizViewEnter(r, cookie, body)
  \/ \E cookie \in AccessCookies : QuizListView(cookie)
  \/ \E cookie \in AccessCookies, method \in Methods, pk \in QuizPks,
        data \in PatchData :
       /\ method # "PATCH" => data = [title |-> "U"]
       /\ QuizDetailView(cookie, method, pk, data)
  \/ \E cookie \in AccessCookies, refresh_token \in RefreshCookies :
       LogoutView(cookie, refresh_token)

\* The framework sends the response of the view to the client; the worker is
\* free for the next request.
SendResponse ==
  /\ response # NoResponse
  /\ response' = NoResponse
  /\ UNCHANGED <<GEMINI_API_KEY, files, req, pure, view, db, auth>>

\* The quiz endpoints and logout; section 5 of the design: blocking
\* execution, a request is served to its end before the next one arrives.
NextApi ==
  \/ ~Serving /\ response = NoResponse /\ Arrive
  \/ \E r \in Requests : StepApi(r)
  \/ \E r \in Requests : CreateQuizViewFinish(r)
  \/ SendResponse

SpecApi == InitApi /\ [][NextApi]_vars

\* The authentication endpoints.
ArriveAuth ==
  \/ \E cookie \in AccessCookies, refresh_token \in RefreshCookies :
       LogoutView(cookie, refresh_token)
  \/ \E refresh_token \in RefreshCookies : RefreshTokenView(refresh_token)

NextAuth ==
  \/ response = NoResponse /\ ArriveAuth
  \/ SendResponse

InitAuth ==
  /\ GEMINI_API_KEY = "secret"
  /\ files = [p \in Paths |-> NoFile]
  /\ req = [r \in Requests |-> IdleFrame]
  /\ pure = [fn |-> "none"]
  /\ ApiAtRest

SpecAuth == InitAuth /\ [][NextAuth]_vars

\* Login with the endpoints that take the tokens it issued.
IssuedAccessCookies(a) ==
  {None} \cup { Some(AccessOf(t, n)) : t \in a.issued, n \in 1..a.minted }
IssuedRefreshCookies(a) == {None} \cup { Some(t) : t \in a.issued }

ArriveLogin ==
  \/ \E body \in LoginBodies : LoginView(body)
  \/ \E cookie \in IssuedAccessCookies(auth),
        refresh_token \in IssuedRefreshCookies(auth) :
       LogoutView(cookie, refresh_token)
  \/ \E refresh_token \in IssuedRefreshCookies(auth) :
       RefreshTokenView(refresh_token)

NextLogin ==
  \/ response = NoResponse /\ ArriveLogin
  \/ SendResponse

SpecLogin == InitAuth /\ [][NextLogin]_vars

(***************************************************************************)
(* Specifications of the pure helpers: Init draws the argument, the action *)
(* applies the function.  The pipeline's variables stay at rest.           *)
(***************************************************************************)
PipelineAtRest ==
  /\ GEMINI_API_KEY = "secret"
  /\ files = [p \in Paths |-> NoFile]
  /\ req = [r \in Requests |-> IdleFrame]
  /\ ApiAtRest

\* --- clean_json_response ---
PayloadChars == {Backtick, " ", "\n", "x"}
Payloads == SeqsUpTo(PayloadChars, MaxPayloadLen)
Tags == {TagNone, TagJson, TagPy, TagUpper, TagJsonl}
Shapes == {"bare", "fenced", "padded"}

\* The response text of a shape: the payload alone, the payload in a fenced
\* block with a language tag, or that block with whitespace around it.
ResponseText(shape, tag, payload) ==
  IF shape = "bare" THEN payload
  ELSE IF shape = "fenced" THEN Fenced(tag, payload)
  ELSE <<" ", "\n">> \o Fenced(tag, payload) \o <<"\n", " ">>

InitClean ==
  /\ PipelineAtRest
  /\ \E shape \in Shapes, tag \in Tags, payload \in Payloads :
       /\ shape = "bare" => tag = TagNone
       /\ pure = [fn |-> "clean_json_response",
                  shape |-> shape, tag |-> tag, payload |-> payload,
                  arg |-> ResponseText(shape, tag, payload),
                  out |-> None]

ApplyClean ==
  /\ pure.fn = "clean_json_response"
  /\ pure.out = None
  /\ pure' = [pure EXCEPT !.out = Some(clean_json_response(pure.arg))]
  /\ UNCHANGED <<GEMINI_API_KEY, files, req, apiVars>>

NextClean == ApplyClean

SpecClean == InitClean /\ [][NextClean]_vars

\* --- normalize_question_keys ---
\* The dicts over the given keys: each key absent or bound to one of its
\* values.  keyvals is a sequence of <<key, set of values>>.
RECURSIVE DictsOver(_)
DictsOver(keyvals) ==
  IF keyvals = << >> THEN { [x \in {} |-> x] }
  ELSE LET rest == DictsOver(Tail(keyvals))
           k == Head(keyvals)[1]
           vs == Head(keyvals)[2]
       IN  rest \cup { Put(d, k, v) : d \in rest, v \in vs }

OptionLists == { <<"A", "B", "C", "D">> }

QuestionDicts ==
  DictsOver(<< <<"question_title", {"Q1", "Q2"}>>,
               <<"question_options", OptionLists>>,
               <<"question", {"Q0"}>>,
               <<"options", { <<"W", "X", "Y", "Z">> }>>,
               <<"answer", {"A"}>>,
               <<"hint", {"H"}>> >>)

QuestionLists == SeqsUpTo(QuestionDicts, MaxQuestions)

QuizDicts ==
  DictsOver(<< <<"title", {"T"}>>,
               <<"description", {"D"}>>,
               <<"questions", QuestionLists>> >>)

InitNormalize ==
  /\ PipelineAtRest
  /\ \E quiz_data \in QuizDicts :
       pure = [fn |-> "normalize_question_keys",
               arg |-> quiz_data, out |-> None]

ApplyNormalize ==
  /\ pure.fn = "normalize_question_keys"
  /\ pure.out = None
  /\ pure' = [pure EXCEPT !.out = Some(normalize_question_keys(pure.arg))]
  /\ UNCHANGED <<GEMINI_API_KEY, files, req, apiVars>>

NextNormalize == ApplyNormalize

SpecNormalize == InitNormalize /\ [][NextNormalize]_vars

\* --- build_gemini_prompt ---
TranscriptChars == {"a", " ", "\n", "1"}
TranscriptTexts == SeqsUpTo(TranscriptChars, MaxTranscriptLen)

InitPrompt ==
  /\ PipelineAtRest
  /\ \E transcript \in TranscriptTexts :
       pure = [fn |-> "build_gemini_prompt", arg |-> transcript,
               outs |-> << >>]

\* The function is called again with the same argument, MaxCalls times.
ApplyPrompt ==
  /\ pure.fn = "build_gemini_prompt"
  /\ Len(pure.outs) < MaxCalls
  /\ pure' = [pure EXCEPT !.outs = Append(@, build_gemini_prompt(pure.arg))]
  /\ UNCHANGED <<GEMINI_API_KEY, files, req, apiVars>>

NextPrompt == ApplyPrompt

SpecPrompt == InitPrompt /\ [][NextPrompt]_vars

(***************************************************************************)
(* Properties.                                                             *)
(***************************************************************************)
\* How often event ev stands in a log, and whether it does.
Count(log, ev) == Cardinality({ i \in 1..Len(log) : log[i] = ev })
Has(log, ev) == \E i \in 1..Len(log) : log[i] = ev
\* Event a stands in the log before an event b.
Before(log, a, b) ==
  \E i \in 1..Len(log) :
    log[i] = a /\ \E j \in (i + 1)..Len(log) : log[j] = b

\* The events of a log that belong to the set evs, in order.
RECURSIVE Project(_, _)
Project(log, evs) ==
  IF log = << >> THEN << >>
  ELSE IF Head(log) \in evs THEN <<Head(log)>> \o Project(Tail(log), evs)
  ELSE Project(Tail(log), evs)

\* transcribe_audio has been left: its result or exception reached the
\* caller.
TranscribeLeft(f) ==
  Has(f.log, "transcribe_audio:return") \/ Has(f.log, "transcribe_audio:raise")

\* C1: for every call of transcribe_audio(path), whether the model returns
\* or raises, cleanup_audio_file is called exactly once, with that path,
\* after the model finished and before the result or the exception reaches
\* the caller; when the model raised, its exception is what the caller
\* receives.
C1_CleanupOnceModelExceptionReachesCaller ==
  \A r \in Requests :
    LET f == req[r]
    IN  /\ Len(f.cleanup_args) <= 1
        /\ TranscribeLeft(f) =>
             /\ f.cleanup_args = <<f.audio_file_path[1]>>
             /\ Count(f.log, "cleanup_audio_file:call") = 1
             /\ \/ Before(f.log, "whisper:return", "cleanup_audio_file:call")
                \/ Before(f.log, "whisper:raise", "cleanup_audio_file:call")
             /\ \/ Before(f.log, "cleanup_audio_file:call",
                           "transcribe_audio:return")
                \/ Before(f.log, "cleanup_audio_file:call",
                           "transcribe_audio:raise")
             /\ Has(f.log, "whisper:raise") =>
                  /\ Has(f.log, "transcribe_audio:raise")
                  /\ f.raised = "RuntimeError"
                  /\ f.ret_text = None

StageEvents ==
  {"download_youtube_audio:call", "download_youtube_audio:return",
   "transcribe_audio:call", "transcribe_audio:return",
   "generate_quiz_with_gemini:call", "generate_quiz_with_gemini:return"}

\* Every stage of the run of frame f has returned.
StagesSucceeded(f) ==
  /\ f.entry = "create_quiz_from_url"
  /\ Has(f.log, "download_youtube_audio:return")
  /\ Has(f.log, "transcribe_audio:return")
  /\ Has(f.log, "generate_quiz_with_gemini:return")

\* C2: when every stage succeeds, create_quiz_from_url calls
\* download_youtube_audio, transcribe_audio and generate_quiz_with_gemini
\* each exactly once, each after the previous one returned, passes the
\* downloaded path to the transcriber and the transcript to the generator,
\* and returns the generator's result unchanged.
C2_HappyPathInOrder ==
  \A r \in Requests :
    LET f == req[r]
    IN  StagesSucceeded(f) =>
          /\ Project(f.log, StageEvents) =
               <<"download_youtube_audio:call",
                 "download_youtube_audio:return",
                 "transcribe_audio:call", "transcribe_audio:return",
                 "generate_quiz_with_gemini:call",
                 "generate_quiz_with_gemini:return">>
          /\ f.audio_file = Some(PrepareFilename(f.url[1]))
          /\ f.audio_file_path = f.audio_file
          /\ f.transcript_local = f.pending_text
          /\ f.transcript = f.transcript_local
          /\ f.quiz_data = f.generated
          /\ f.raised = "none"
          /\ f.pc \in {"return", "done"}
          /\ f.pc = "done" => f.ret_data = f.generated /\ f.ret_data # None

\* A run whose three stages succeeded has returned a payload.
C2_Witness ==
  \E r \in Requests :
    /\ StagesSucceeded(req[r])
    /\ req[r].pc = "done"
    /\ req[r].ret_data = Some(normalize_question_keys(JsonValueA))

CallEvents ==
  {"download_youtube_audio:call", "transcribe_audio:call",
   "cleanup_audio_file:call", "generate_quiz_with_gemini:call",
   "call_gemini_api:call"}

\* The exception a stage's raise event stands for, by what the log shows.
StageException(log) ==
  IF Has(log, "download_youtube_audio:raise") THEN "DownloadError"
  ELSE IF Has(log, "cleanup_audio_file:raise") THEN "FileNotFoundError"
  ELSE IF Has(log, "whisper:raise") THEN "RuntimeError"
  ELSE IF Has(log, "call_gemini_api:raise") THEN "ClientError"
  ELSE IF Has(log, "json.loads:raise") THEN "JSONDecodeError"
  ELSE "ValueError"

StageRaises ==
  {"download_youtube_audio:raise", "transcribe_audio:raise",
   "generate_quiz_with_gemini:raise"}

\* C3: if a stage of create_quiz_from_url raises (download, transcription,
\* AI call, response parsing), create_quiz_from_url raises that same
\* exception at once: nothing is called after the raise, no stage or
\* outbound call is made twice, and no payload is returned.
C3_FailurePropagatesNoRetry ==
  \A r \in Requests :
    LET f == req[r]
    IN  f.entry = "create_quiz_from_url" =>
          /\ \A i \in 1..Len(f.log) :
               f.log[i] \in CallEvents =>
                 \A j \in (i + 1)..Len(f.log) : f.log[j] # f.log[i]
          /\ \A i \in 1..Len(f.log) :
               f.log[i] \in StageRaises =>
                 /\ Len(f.log) = i + 1
                 /\ f.log[i + 1] = "create_quiz_from_url:raise"
                 /\ f.pc = "done"
                 /\ f.raised = StageException(f.log)
                 /\ f.ret_data = None
          /\ \A i \in 1..Len(f.log) :
               f.log[i] \in {"whisper:raise", "call_gemini_api:raise",
                             "json.loads:raise"} =>
                 \A j \in (i + 1)..Len(f.log) : f.log[j] \notin
                   {"download_youtube_audio:call", "transcribe_audio:call",
                    "generate_quiz_with_gemini:call", "call_gemini_api:call"}
          /\ f.raised # "none" => f.ret_data = None /\ f.pc = "done"

\* A run whose AI response did not parse has raised the parse error.
C3_Witness ==
  \E r \in Requests :
    /\ req[r].entry = "create_quiz_from_url"
    /\ Has(req[r].log, "json.loads:raise")
    /\ req[r].raised = "JSONDecodeError"
    /\ req[r].pc = "done"

\* The run of frame f has downloaded its audio file and its transcriber has
\* not been left yet.
Transcribing(f) ==
  /\ f.entry = "create_quiz_from_url"
  /\ f.pc \in {"whisper", "cleanup", "remove"}

\* C4: under any interleaving of create-quiz requests, between the end of a
\* run's download and the end of its transcription the audio file is the one
\* that run downloaded (no other request has deleted or overwritten it), and
\* when the run's transcriber is left the file does not exist.
C4_ExclusiveAudioFile ==
  /\ [](\A r \in Requests :
          Transcribing(req[r]) /\ ~Has(req[r].log, "cleanup_audio_file:return")
            => files[req[r].audio_file_path[1]] = r)
  /\ [][\A r \in Requests :
          (req[r].pc = "exit_transcribe" /\ req'[r].pc # "exit_transcribe"
             /\ req[r].entry = "create_quiz_from_url")
            => files'[req[r].audio_file_path[1]] = NoFile]_vars

\* C5: without a credential (GEMINI_API_KEY empty), every call of
\* generate_quiz_with_gemini, whatever the transcript, ends with ValueError
\* and returns nothing, and call_gemini_api is never called.
C5_NoKeyRaisesBeforeApiCall ==
  GEMINI_API_KEY = "" =>
    \A r \in Requests :
      LET f == req[r]
      IN  /\ ~Has(f.log, "call_gemini_api:call")
          /\ f.prompt = None /\ f.response_text = None
          /\ f.generated = None /\ f.ret_data = None
          /\ (Has(f.log, "generate_quiz_with_gemini:call")
                /\ f.pc # "generate") =>
               /\ f.pc = "done"
               /\ f.raised = "ValueError"
               /\ Has(f.log, "generate_quiz_with_gemini:raise")

\* generate_quiz_with_gemini was called directly with a non-empty transcript
\* and no credential, and has raised ValueError.
C5_Witness ==
  \E r \in Requests :
    /\ GEMINI_API_KEY = ""
    /\ req[r].entry = "generate_quiz_with_gemini"
    /\ req[r].transcript = Some(<<"h", "i">>)
    /\ req[r].raised = "ValueError"

\* C6 as stated: in a run of create_quiz_from_url without a credential the
\* configuration error is raised before any network call: neither the media
\* download nor the AI call has been started when the error is raised.
C6_FailsBeforeAnyNetworkCall ==
  GEMINI_API_KEY = "" =>
    \A r \in Requests :
      (req[r].entry = "create_quiz_from_url"
         /\ req[r].raised = "ValueError") =>
        /\ ~Has(req[r].log, "download_youtube_audio:call")
        /\ ~Has(req[r].log, "call_gemini_api:call")

\* C6 amended: in a run of create_quiz_from_url without a credential the AI
\* call is never started and no payload is returned; the configuration error
\* (ValueError) is raised only after the media download and the
\* transcription have both completed, and it is how every run ends whose
\* download and transcription succeeded.
C6_FailsBeforeAiCallAfterDownload ==
  GEMINI_API_KEY = "" =>
    \A r \in Requests :
      LET f == req[r]
      IN  f.entry = "create_quiz_from_url" =>
            /\ ~Has(f.log, "call_gemini_api:call")
            /\ f.ret_data = None
            /\ f.raised = "ValueError" =>
                 /\ Project(f.log, StageEvents) =
                      <<"download_youtube_audio:call",
                        "download_youtube_audio:return",
                        "transcribe_audio:call", "transcribe_audio:return",
                        "generate_quiz_with_gemini:call">>
                 /\ f.cleanup_args = <<f.audio_file[1]>>
            /\ (f.pc = "done" /\ Has(f.log, "transcribe_audio:return")) =>
                 f.raised = "ValueError"

\* A run without a credential has downloaded, transcribed and then raised
\* the configuration error.
C6_Witness ==
  \E r \in Requests :
    /\ GEMINI_API_KEY = ""
    /\ req[r].entry = "create_quiz_from_url"
    /\ req[r].raised = "ValueError"
    /\ Has(req[r].log, "download_youtube_audio:return")

\* The call of the pure helper under check has returned.
Cleaned == pure.fn = "clean_json_response" /\ pure.out # None
Trimmed(text) == Strip(text) = text

\* C7: clean_json_response turns ```json \n P \n ``` (also with whitespace
\* around the block) into the payload without the whitespace around it, so
\* into exactly P when P has no surrounding whitespace; and it returns
\* unchanged every text that has no surrounding whitespace and neither
\* starts nor ends with ```.
C7_JsonFenceRemovedElseUnchanged ==
  Cleaned =>
    /\ (pure.shape \in {"fenced", "padded"} /\ pure.tag = TagJson) =>
         /\ pure.out[1] = Strip(pure.payload)
         /\ Trimmed(pure.payload) => pure.out[1] = pure.payload
    /\ (pure.shape = "bare" /\ Trimmed(pure.arg)
          /\ ~StartsWith(pure.arg, Fence) /\ ~EndsWith(pure.arg, Fence)) =>
         pure.out[1] = pure.arg

\* A ```json block whose payload itself begins with a fence and holds text
\* has been cleaned to exactly that payload.
C7_Witness ==
  /\ Cleaned
  /\ pure.shape = "fenced" /\ pure.tag = TagJson
  /\ pure.payload = <<Backtick, Backtick, Backtick, "x">>
  /\ pure.out[1] = pure.payload

Normalized == pure.fn = "normalize_question_keys" /\ pure.out # None

RenamedKeys == {"question_title", "question_options", "question", "options"}

\* What C9 says of one question object, before (q) and after (n).
QuestionRenamed(q, n) ==
  /\ "question_title" \notin DOMAIN n
  /\ "question_options" \notin DOMAIN n
  /\ "question_title" \in DOMAIN q =>
       "question" \in DOMAIN n /\ n["question"] = q["question_title"]
  /\ "question_options" \in DOMAIN q =>
       "options" \in DOMAIN n /\ n["options"] = q["question_options"]
  /\ "question_title" \notin DOMAIN q =>
       /\ ("question" \in DOMAIN n) = ("question" \in DOMAIN q)
       /\ "question" \in DOMAIN q => n["question"] = q["question"]
  /\ "question_options" \notin DOMAIN q =>
       /\ ("options" \in DOMAIN n) = ("options" \in DOMAIN q)
       /\ "options" \in DOMAIN q => n["options"] = q["options"]
  /\ (DOMAIN n) \ RenamedKeys = (DOMAIN q) \ RenamedKeys
  /\ \A k \in (DOMAIN q) \ RenamedKeys : n[k] = q[k]

Find(s, sub, from) ==
  LET hits == { i \in from..(Len(s) - Len(sub) + 1) :
                  SubSeq(s, i, i + Len(sub) - 1) = sub }
  IN  IF hits = {} THEN 0 ELSE CHOOSE i \in hits : \A j \in hits : i <= j

TenQuestions ==
  <<"1", "0", " ", "q", "u", "e", "s", "t", "i", "o", "n", "s">>
JsonFormat == <<"J", "S", "O", "N", " ", "f", "o", "r", "m", "a", "t">>

\* What C10 says of one prompt built for transcript t.
PromptShape(prompt, t) ==
  LET at_structure == Find(prompt, get_prompt_structure,
                           Len(get_prompt_header) + 1)
      at_requirements == Find(prompt, get_prompt_requirements,
                              at_structure + Len(get_prompt_structure))
  IN  /\ Contains(prompt, TenQuestions)
      /\ Contains(prompt, JsonFormat)
      /\ Contains(prompt, t)
      /\ EndsWith(prompt, t)
      /\ StartsWith(prompt, get_prompt_header)
      /\ at_structure > 0
      /\ at_requirements > 0
      /\ at_requirements + Len(get_prompt_requirements)
           <= Len(prompt) - Len(t) + 1

\* C10: for every transcript T every call of build_gemini_prompt(T) gives
\* the same text, which contains "10 questions" and "JSON format", contains
\* T and ends with T, after the header, the schema example and the
\* requirements block, in that order.
C10_PromptEndsWithTranscript ==
  pure.fn = "build_gemini_prompt" =>
    /\ \A i \in 1..Len(pure.outs) : PromptShape(pure.outs[i], pure.arg)
    /\ \A i, j \in 1..Len(pure.outs) : pure.outs[i] = pure.outs[j]

\* The prompt of a transcript with a newline in it has been built twice.
C10_Witness ==
  /\ pure.fn = "build_gemini_prompt"
  /\ Len(pure.outs) = 2
  /\ pure.arg = <<"a", "\n", "1">>

\* Whether generate_quiz_with_gemini was entered and left in frame f.
GenerateLeft(f) ==
  \/ Has(f.log, "generate_quiz_with_gemini:return")
  \/ Has(f.log, "generate_quiz_with_gemini:raise")

\* C11: with a credential configured, generate_quiz_with_gemini calls the AI
\* client exactly once and returns normalize_question_keys(json.loads(
\* clean_json_response(raw))) for the raw text it received; when the cleaned
\* text is not valid JSON the parse error reaches the caller, the AI client
\* is not called again and nothing is returned.
C11_GenerateParsesOnceNoReprompt ==
  \A r \in Requests :
    LET f == req[r]
    IN  /\ Count(f.log, "call_gemini_api:call") <= 1
        /\ (GEMINI_API_KEY # "" /\ GenerateLeft(f)) =>
             Count(f.log, "call_gemini_api:call") = 1
        /\ (GenerateLeft(f) /\ Has(f.log, "call_gemini_api:return")) =>
             LET raw == f.response_text[1]
                 loaded == json_loads(clean_json_response(raw))
             IN  IF loaded # None
                 THEN /\ Has(f.log, "generate_quiz_with_gemini:return")
                      /\ f.generated =
                           Some(normalize_question_keys(loaded[1]))
                      /\ f.raised = "none"
                      /\ f.entry = "generate_quiz_with_gemini" =>
                           f.ret_data = f.generated
                 ELSE /\ Has(f.log, "generate_quiz_with_gemini:raise")
                      /\ f.raised = "JSONDecodeError"
                      /\ f.generated = None
                      /\ f.ret_data = None
                      /\ f.pc = "done"

\* One direct call ended in a parse error and another returned the payload
\* of a fenced response.
C11_Witness ==
  \E r, q \in Requests :
    /\ req[r].entry = "generate_quiz_with_gemini"
    /\ req[r].raised = "JSONDecodeError"
    /\ Has(req[r].log, "call_gemini_api:return")
    /\ req[q].entry = "generate_quiz_with_gemini"
    /\ req[q].response_text = Some(Fenced(TagJson, JsonTextA))
    /\ req[q].ret_data = Some(normalize_question_keys(JsonValueA))

\* The exception raised while the quiz of request r is created: the one
\* that left the pipeline, else the one that left create_quiz_in_db.
CreationException(r) ==
  IF req[r].raised # "none" THEN Some(PipelineException(req[r].raised))
  ELSE create_quiz_in_db(db, view[r].user[1], req[r].ret_data[1],
                         view[r].url[1]).exc

\* C12: for an authenticated create-quiz request with a valid body, an
\* exception raised while the quiz is created, by the pipeline or by the
\* persistence step, gives the 500 response of the view with body
\* {detail: 'Error creating quiz: ' + str(exception)}; it does not leave
\* the view and no 201 is returned.
C12_CreationExceptionGives500 ==
  [][\A r \in Requests :
       (CreateQuizViewFinish(r) /\ CreationException(r) # None) =>
         /\ response'.view = "create_quiz_view"
         /\ response'.status = 500
         /\ response'.body =
              [detail |-> <<"Error creating quiz: ">>
                            \o Str(CreationException(r)[1])]]_vars

\* create_quiz_in_db raised KeyError('questions') and the view answered 500.
C12_Witness ==
  /\ response.view = "create_quiz_view"
  /\ response.status = 500
  /\ response.body =
       [detail |-> <<"Error creating quiz: ", "'", "questions", "'">>]

\* C13: a create-quiz request whose body fails validation (the permission
\* check let it through) is answered with 400 and does not reach the core:
\* no pipeline stage is invoked for it, no file is written and no Quiz or
\* Question is stored.
C13_InvalidBodyGives400CoreUntouched ==
  [][\A cookie \in { c \in AccessCookies : Authenticate(c) # None },
        body \in { b \in Bodies : ~IsValid(b) }, r \in Requests :
       CreateQuizViewEnter(r, cookie, body) =>
         /\ response'.view = "create_quiz_view"
         /\ response'.status = 400
         /\ req' = req
         /\ \A q \in Requests : req'[q].log = << >>
         /\ view' = view
         /\ files' = files
         /\ db' = db]_vars

\* The view answered 400 for a url that is not a URL while a quiz was
\* stored already.
C13_Witness ==
  /\ response.view = "create_quiz_view"
  /\ response.status = 400
  /\ response.body = [url |-> "Enter a valid URL."]
  /\ DOMAIN db.quizzes # {}
  /\ \A r \in Requests : req[r].pc = "idle" /\ view[r].pc = "idle"

\* A payload as section 3 of the design describes it: a title, a list of
\* questions, each with a question, options and an answer.
WellFormed(Q) ==
  /\ {"title", "questions"} \subseteq DOMAIN Q
  /\ \A i \in 1..Len(Q["questions"]) :
       {"question", "options", "answer"} \subseteq DOMAIN Q["questions"][i]

\* The rows of table new that table old does not have.
NewKeys(old, new) == (DOMAIN new) \ (DOMAIN old)

\* C14: when the pipeline returns payload Q (with a title and questions that
\* have question, options and answer) for an authenticated create-quiz
\* request with URL u, the response is 201 and exactly one new Quiz is
\* stored, owned by the authenticated user, with video URL u, Q's title and
\* Q's description ('' when Q has none), together with exactly one Question
\* per element of Q's questions holding that element's question, options
\* and answer; the rows stored before stay as they were.
C14_PayloadStoredAs201 ==
  [][\A r \in Requests :
       ( /\ CreateQuizViewFinish(r)
         /\ req[r].raised = "none"
         /\ WellFormed(req[r].ret_data[1]) ) =>
         LET Q == req[r].ret_data[1]
             quizzes == NewKeys(db.quizzes, db'.quizzes)
             questions == NewKeys(db.questions, db'.questions)
         IN  /\ response'.status = 201
             /\ Cardinality(quizzes) = 1
             /\ \A pk \in quizzes :
                  /\ db'.quizzes[pk] =
                       [user |-> view[r].user[1],
                        title |-> Q["title"],
                        description |->
                          IF "description" \in DOMAIN Q
                          THEN Q["description"] ELSE "",
                        video_url |-> view[r].url[1]]
                  /\ response'.body.id = pk
                  /\ response'.body.title = Q["title"]
                  /\ Cardinality(questions) = Len(Q["questions"])
                  /\ \E f \in [1..Len(Q["questions"]) -> questions] :
                       /\ \A i, j \in DOMAIN f : f[i] = f[j] => i = j
                       /\ \A i \in DOMAIN f :
                            db'.questions[f[i]] =
                              [quiz |-> pk,
                               question_title |-> Q["questions"][i]["question"],
                               question_options |->
                                 Q["questions"][i]["options"],
                               answer |-> Q["questions"][i]["answer"]]
             /\ \A pk \in DOMAIN db.quizzes : db'.quizzes[pk] = db.quizzes[pk]
             /\ \A q \in DOMAIN db.questions :
                  db'.questions[q] = db.questions[q]]_vars

\* bob's request was answered 201 for a payload with a description, next
\* to a quiz of alice stored from a payload without one.
C14_Witness ==
  /\ response.view = "create_quiz_view"
  /\ response.status = 201
  /\ response.body.id = 2
  /\ response.body.description = "D"
  /\ db.quizzes[2].user = "bob"
  /\ 1 \in DOMAIN db.quizzes
  /\ db.quizzes[1].user = "alice"
  /\ db.quizzes[1].description = ""
  /\ db.quizzes[1].video_url # db.quizzes[2].video_url
  /\ QuestionsOf(db, 1) # {}
  /\ QuestionsOf(db, 2) # {}

\* The cookies that carry no valid access token: none, an access token whose
\* lifetime has passed, a token of another type.
Unauthenticated == { c \in AccessCookies : Authenticate(c) = None }

\* Nothing but the response changes in this step.
OnlyResponseChanges ==
  UNCHANGED <<GEMINI_API_KEY, files, req, pure, view, db, auth>>

\* C15: a request without a valid access token to the create-quiz,
\* quiz-list, quiz-detail or logout endpoint is answered with 401 and
\* changes nothing: no pipeline stage is invoked, no Quiz or Question is
\* created, modified or deleted, no refresh token is blacklisted.
C15_Unauthenticated401NoEffect ==
  [][\A cookie \in Unauthenticated :
       ( \/ \E r \in Requests, body \in Bodies :
              CreateQuizViewEnter(r, cookie, body)
         \/ QuizListView(cookie)
         \/ \E method \in Methods, pk \in QuizPks, data \in PatchData :
              QuizDetailView(cookie, method, pk, data)
         \/ \E refresh_token \in RefreshCookies :
              LogoutView(cookie, refresh_token) ) =>
         /\ response'.status = 401
         /\ response'.cookies = NoCookies
         /\ OnlyResponseChanges]_vars

\* Logout was answered 401 for a request that carried alice's refresh
\* token, while quizzes are stored and that token is not blacklisted.
C15_Witness ==
  /\ response.view = "logout_view"
  /\ response.status = 401
  /\ response.presented = Some(RefreshOf("alice"))
  /\ RefreshOf("alice").jti \notin auth.blacklist
  /\ DOMAIN db.quizzes # {}
  /\ DOMAIN db.questions # {}

\* The cookies that authenticate a user.
Authenticated == { c \in AccessCookies : Authenticate(c) # None }

\* The primary keys of the quizzes user owns.
OwnedBy(d, user) == { pk \in DOMAIN d.quizzes : d.quizzes[pk].user = user }

\* C16: quizzes are isolated by owner after any sequence of create, list,
\* get, patch and delete requests by any users: the list endpoint returns
\* exactly the quizzes the requesting user owns, and a GET, PATCH or DELETE
\* on a quiz of another user is answered with 404 and leaves that quiz and
\* its questions unchanged.
C16_OwnerIsolation ==
  [][\A cookie \in Authenticated :
       LET user == Authenticate(cookie)[1]
       IN  /\ QuizListView(cookie) =>
                /\ response'.status = 200
                /\ { q.id : q \in response'.body } = OwnedBy(db, user)
                /\ \A q \in response'.body :
                     /\ q.title = db.quizzes[q.id].title
                     /\ { x.id : x \in q.questions } = QuestionsOf(db, q.id)
                /\ OnlyResponseChanges
           /\ \A method \in Methods, data \in PatchData,
                 pk \in (DOMAIN db.quizzes) \ OwnedBy(db, user) :
                QuizDetailView(cookie, method, pk, data) =>
                  /\ response'.status = 404
                  /\ pk \in DOMAIN db'.quizzes
                  /\ db'.quizzes[pk] = db.quizzes[pk]
                  /\ db'.questions = db.questions
                  /\ OnlyResponseChanges]_vars

\* The detail endpoint answered 404 although every primary key it can be
\* asked for names a stored quiz: the quiz asked for is another user's.
C16_Witness ==
  /\ response.view = "quiz_detail_view"
  /\ response.status = 404
  /\ DOMAIN db.quizzes = QuizPks
  /\ \E u \in Users : OwnedBy(db, u) = {1}
  /\ \E u \in Users : OwnedBy(db, u) = {2}
  /\ \A pk \in QuizPks : QuestionsOf(db, pk) # {}

\* Every stored Question names a stored Quiz.
QuestionsHaveQuiz ==
  \A q \in DOMAIN db.questions : db.questions[q].quiz \in DOMAIN db.quizzes

\* C17: a DELETE by the owner is answered with 204 and removes the quiz and
\* all questions that belonged to it, so that in every reachable state each
\* stored Question belongs to exactly one stored Quiz; the other quizzes and
\* their questions are unaffected.
C17_DeleteCascades ==
  /\ []QuestionsHaveQuiz
  /\ [][\A cookie \in Authenticated, data \in PatchData :
          \A pk \in OwnedBy(db, Authenticate(cookie)[1]) :
          QuizDetailView(cookie, "DELETE", pk, data) =>
            /\ response'.status = 204
            /\ DOMAIN db'.quizzes = (DOMAIN db.quizzes) \ {pk}
            /\ DOMAIN db'.questions =
                 (DOMAIN db.questions) \ QuestionsOf(db, pk)
            /\ \A k \in DOMAIN db'.quizzes : db'.quizzes[k] = db.quizzes[k]
            /\ \A q \in DOMAIN db'.questions :
                 db'.questions[q] = db.questions[q]]_vars

\* A quiz with a question was deleted; the other quiz and its question are
\* still stored.
C17_Witness ==
  /\ response.view = "quiz_detail_view"
  /\ response.status = 204
  /\ db.next_quiz = 3
  /\ db.next_question = 3
  /\ Cardinality(DOMAIN db.quizzes) = 1
  /\ Cardinality(DOMAIN db.questions) = 1
  /\ QuestionsHaveQuiz

\* The elements of a sequence.
Range(seq) == { seq[i] : i \in 1..Len(seq) }

\* C18: every stored Question has exactly 4 option strings and its answer
\* is one of its own options, in every state reachable through create-quiz
\* requests, whatever JSON text the AI service returns.
C18_FourOptionsAnswerAmongThem ==
  \A q \in DOMAIN db.questions :
    /\ Len(db.questions[q].question_options) = 4
    /\ db.questions[q].answer \in Range(db.questions[q].question_options)

\* The refresh tokens a request may present.
PresentedTokens == { c[1] : c \in RefreshCookies \ {None} }

\* C19: a successful logout (an authenticated request with a valid refresh
\* token cookie) answers 200, blacklists that refresh token and clears the
\* access_token and the refresh_token cookie; from then on every
\* token-refresh request that presents that refresh token is answered with
\* 401 and sets no access cookie.
C19_LogoutBlacklistsForGood ==
  /\ [][\A cookie \in Authenticated, token \in PresentedTokens :
          (ValidRefresh(token, auth) /\ LogoutView(cookie, Some(token))) =>
            /\ response'.status = 200
            /\ token.jti \in auth'.blacklist
            /\ DOMAIN response'.cookies = {"access_token", "refresh_token"}
            /\ \A c \in DOMAIN response'.cookies :
                 /\ response'.cookies[c].value = None
                 /\ response'.cookies[c].max_age = 0]_vars
  /\ [][auth.blacklist \subseteq auth'.blacklist]_vars
  /\ [][\A token \in PresentedTokens :
          (token.jti \in auth.blacklist /\ RefreshTokenView(Some(token))) =>
            /\ response'.status = 401
            /\ "access_token" \notin DOMAIN response'.cookies
            /\ auth' = auth]_vars

\* After alice's logout a refresh request that presented her refresh token
\* was answered 401.
C19_Witness ==
  /\ response.view = "refresh_token_view"
  /\ response.status = 401
  /\ response.presented = Some(RefreshOf("alice"))
  /\ RefreshOf("alice").jti \in auth.blacklist
  /\ response.cookies = NoCookies

\* C20: the token-refresh endpoint answers 401 and sets no cookie when the
\* refresh_token cookie is missing or is not a valid refresh token; with a
\* valid refresh token it answers 200, returns a new access token in the
\* body, sets the access_token cookie to that same token and leaves the
\* refresh_token cookie and the validity of the refresh token as they were
\* (no rotation, no blacklisting).
C20_RefreshIssuesAccessOnly ==
  [][\A refresh_token \in RefreshCookies :
       RefreshTokenView(refresh_token) =>
         IF refresh_token = None \/ ~ValidRefresh(refresh_token[1], auth)
         THEN /\ response'.status = 401
              /\ response'.cookies = NoCookies
              /\ auth' = auth
         ELSE /\ response'.status = 200
              /\ response'.body.access.type = "access"
              /\ response'.body.access.user = refresh_token[1].user
              /\ ~response'.body.access.expired
              /\ \A n \in 0..auth.minted :
                   response'.body.access # AccessOf(refresh_token[1], n)
              /\ DOMAIN response'.cookies = {"access_token"}
              /\ response'.cookies["access_token"].value =
                   Some(response'.body.access)
              /\ auth'.blacklist = auth.blacklist
              /\ ValidRefresh(refresh_token[1], auth')]_vars

\* bob's refresh token was presented a second time and answered with the
\* second access token, in body and cookie alike.
C20_Witness ==
  /\ response.view = "refresh_token_view"
  /\ response.status = 200
  /\ response.presented = Some(RefreshOf("bob"))
  /\ response.body.access = AccessOf(RefreshOf("bob"), 2)
  /\ response.cookies["access_token"].value = Some(response.body.access)
  /\ auth.blacklist = {}

\* C21: login sets the access_token and the refresh_token cookie, both
\* with the configured httponly flag, exactly when the body is valid and
\* the credentials authenticate a user, and then answers 200; with wrong
\* credentials or an unknown username it answers 401, with missing fields
\* 400, and in both failure cases it sets no cookie and issues no token.
C21_LoginCookiesIffAuthenticated ==
  [][\A body \in LoginBodies :
       LoginView(body) =>
         IF /\ IsValidLogin(body)
            /\ authenticate_user(body.username, body.password) # None
         THEN /\ response'.status = 200
              /\ DOMAIN response'.cookies = {"access_token", "refresh_token"}
              /\ \A c \in DOMAIN response'.cookies :
                   /\ response'.cookies[c].httponly = JWT_COOKIE_HTTP_ONLY
                   /\ response'.cookies[c].value # None
                   /\ response'.cookies[c].value[1].user = body.username
              /\ response'.cookies["access_token"].value[1].type = "access"
              /\ response'.cookies["refresh_token"].value[1].type = "refresh"
              /\ response'.cookies["refresh_token"].value[1]
                   \in auth'.issued \ auth.issued
         ELSE /\ response'.status = IF IsValidLogin(body) THEN 401 ELSE 400
              /\ response'.cookies = NoCookies
              /\ auth' = auth]_vars

\* After alice logged in, a login with bob's name and alice's password was
\* refused with 401 and issued nothing.
C21_Witness ==
  /\ response.view = "login_view"
  /\ response.status = 401
  /\ response.cookies = NoCookies
  /\ \E t \in auth.issued : t.user = "alice"
  /\ \A t \in auth.issued : t.user # "bob"

\* C22: cleanup_audio_file(path) removes the file once when it exists and
\* is a no-op that raises nothing when it does not; when it returns the file
\* is absent, no other file was touched, and a cleanup that found no file
\* changed nothing.  This holds as well when two cleanups of the same path
\* are interleaved.
C22_CleanupIdempotent ==
  [][\A r \in Requests :
       (req[r].pc \in {"cleanup", "remove"}
          /\ req'[r].pc = "exit_transcribe") =>
         LET path == req[r].audio_file_path[1]
         IN  /\ ~Has(req'[r].log, "cleanup_audio_file:raise")
             /\ Count(req'[r].log, "cleanup_audio_file:return") = 1
             /\ files'[path] = NoFile
             /\ \A p \in Paths \ {path} : files'[p] = files[p]
             /\ req[r].pc = "cleanup" => files' = files]_vars

\* C23: whenever a create-quiz request is answered with 500, the stored
\* state is what it was before the request: no Quiz and no Question made by
\* that request remains, also when the failure happens after the pipeline
\* succeeded (a payload without questions, a question without one of its
\* keys).
C23_Failure500LeavesNothingStored ==
  [][\A r \in Requests :
       (CreateQuizViewFinish(r) /\ response'.status = 500) =>
         /\ db'.quizzes = db.quizzes
         /\ db'.questions = db.questions]_vars

====
